---- MODULE Spec2Model ----
(***************************************************************************)
(* gowild: the backtracking wildcard matcher and its bracket-expression    *)
(* parser.                                                                 *)
(*                                                                         *)
(* Two engines are modelled, step by step, as the loops of the source:     *)
(*   MatchInternal      the byte-wise engine behind gowild.Match           *)
(*   MatchInternalFold  the UTF-8 engine behind gowild.MatchFold           *)
(* Patterns and subjects are Go strings, i.e. sequences of bytes; a Go     *)
(* index i is element i+1 of the TLA+ sequence.                            *)
(***************************************************************************)
EXTENDS Integers, Sequences, FiniteSets, TLC

(***************************************************************************)
(* Bounds of the model.                                                    *)
(***************************************************************************)
MaxPatToks == 3
MaxSubLen == 3

(***************************************************************************)
(* Program constants.                                                      *)
(***************************************************************************)
wildcardStar == 42
wildcardQuestion == 63
wildcardDot == 46
wildcardBracket == 91
wildcardEscape == 92
closeBracket == 93
rangeDash == 45
negCaret == 94
negBang == 33
newline == 10
RuneError == 65533
errChanCap == 1

(***************************************************************************)
(* Characters by name, for writing inputs down readably.                   *)
(***************************************************************************)
Ord ==
  ("a" :> 97) @@ ("b" :> 98) @@ ("c" :> 99) @@ ("x" :> 120) @@ ("z" :> 122) @@
  ("A" :> 65) @@ ("B" :> 66) @@ ("C" :> 67) @@ ("Z" :> 90) @@
  ("k" :> 107) @@ ("K" :> 75) @@
  ("*" :> 42) @@ ("?" :> 63) @@ ("." :> 46) @@ ("[" :> 91) @@ ("]" :> 93) @@
  ("\\" :> 92) @@ ("-" :> 45) @@ ("^" :> 94) @@ ("!" :> 33) @@
  (" " :> 32) @@ ("\t" :> 9) @@ ("\n" :> 10) @@ ("\r" :> 13) @@
  ("e'" :> 233) @@ ("E'" :> 201) @@ ("Kelvin" :> 8490) @@ ("U+FFFD" :> 65533) @@
  ("U+10000" :> 65536)

\* The text (sequence of codepoints) spelled by a tuple of character names.
Text(names) == [i \in 1..Len(names) |-> Ord[names[i]]]

(***************************************************************************)
(* UTF-8.                                                                  *)
(***************************************************************************)
\* The bytes of one codepoint, as a Go string literal stores it.
EncodeRune(r) ==
  IF r < 128 THEN <<r>>
  ELSE IF r < 2048 THEN <<192 + (r \div 64), 128 + (r % 64)>>
  ELSE IF r < 65536
    THEN <<224 + (r \div 4096), 128 + ((r \div 64) % 64), 128 + (r % 64)>>
  ELSE <<240 + (r \div 262144), 128 + ((r \div 4096) % 64),
         128 + ((r \div 64) % 64), 128 + (r % 64)>>

RECURSIVE Utf8(_)
Utf8(text) ==
  IF text = <<>> THEN <<>> ELSE EncodeRune(Head(text)) \o Utf8(Tail(text))

IsCont(b) == b >= 128 /\ b <= 191

\* utf8.DecodeRune(b[pos:]) for pos < len(b): <<rune, width>>; an invalid or
\* truncated encoding decodes as <<RuneError, 1>>.
DecodeRune(b, pos) ==
  LET n  == Len(b) - pos
      b0 == b[pos + 1]
      b1 == b[pos + 2]
      b2 == b[pos + 3]
      b3 == b[pos + 4]
      lo == IF b0 = 224 THEN 160 ELSE IF b0 = 240 THEN 144 ELSE 128
      hi == IF b0 = 237 THEN 159 ELSE IF b0 = 244 THEN 143 ELSE 191
  IN  IF b0 < 128 THEN <<b0, 1>>
      ELSE IF b0 >= 194 /\ b0 <= 223
        THEN IF n >= 2 /\ IsCont(b1)
               THEN <<(b0 - 192) * 64 + (b1 - 128), 2>>
               ELSE <<RuneError, 1>>
      ELSE IF b0 >= 224 /\ b0 <= 239
        THEN IF n >= 3 /\ b1 >= lo /\ b1 <= hi /\ IsCont(b2)
               THEN <<(b0 - 224) * 4096 + (b1 - 128) * 64 + (b2 - 128), 3>>
               ELSE <<RuneError, 1>>
      ELSE IF b0 >= 240 /\ b0 <= 244
        THEN IF n >= 4 /\ b1 >= lo /\ b1 <= hi /\ IsCont(b2) /\ IsCont(b3)
               THEN <<(b0 - 240) * 262144 + (b1 - 128) * 4096
                        + (b2 - 128) * 64 + (b3 - 128), 4>>
               ELSE <<RuneError, 1>>
      ELSE <<RuneError, 1>>

\* A byte engine that reads an upper-case ASCII letter as its lower-case one.
RuneAt_FoldsBytes(engine, b, pos) ==
  IF engine = "MatchInternal"
    THEN <<IF b[pos + 1] >= 65 /\ b[pos + 1] <= 90
             THEN b[pos + 1] + 32 ELSE b[pos + 1], 1>>
    ELSE DecodeRune(b, pos)

\* The byte engine reads one byte and advances by one; the UTF-8 engine
\* decodes a rune and advances by its width.
RuneAt(engine, b, pos) ==
  IF engine = "MatchInternal" THEN <<b[pos + 1], 1>> ELSE DecodeRune(b, pos)

(***************************************************************************)
(* Case folding.                                                           *)
(***************************************************************************)
\* The orbits of unicode.SimpleFold that have more than two members or lie
\* outside ASCII, for the characters inputs are drawn from.
FoldOrbits == {{75, 107, 8490}, {83, 115, 383}, {201, 233}}

OrbitOf(r) ==
  IF \E o \in FoldOrbits : r \in o THEN CHOOSE o \in FoldOrbits : r \in o
  ELSE IF r >= 65 /\ r <= 90 THEN {r, r + 32}
  ELSE IF r >= 97 /\ r <= 122 THEN {r - 32, r}
  ELSE {r}

SetMin(S) == CHOOSE x \in S : \A y \in S : x <= y

\* unicode.SimpleFold: the smallest rune of the orbit larger than r, or the
\* smallest of the orbit when r is its largest.
SimpleFold(r) ==
  LET o == OrbitOf(r)
      above == {x \in o : x > r}
  IN  IF above # {} THEN SetMin(above) ELSE SetMin(o)

RECURSIVE FoldCycle(_, _, _)
FoldCycle(f, r2, r1) ==
  IF f = r2 THEN FALSE
  ELSE IF f = r1 THEN TRUE
  ELSE FoldCycle(SimpleFold(f), r2, r1)

equalFoldRune(r1, r2) ==
  IF r1 = r2 THEN TRUE
  ELSE LET hi == IF r1 < r2 THEN r2 ELSE r1
           lo == IF r1 < r2 THEN r1 ELSE r2
       IN  FoldCycle(SimpleFold(lo), lo, hi)

\* A comparison that folds case whatever the fold argument.
RunesEqual_AlwaysFold(fold, pRune, sRune) == equalFoldRune(pRune, sRune)

RunesEqual(fold, pRune, sRune) ==
  IF fold THEN equalFoldRune(pRune, sRune) ELSE pRune = sRune

(***************************************************************************)
(* Bracket expressions.                                                    *)
(***************************************************************************)
\* A parsed class: Chars and Ranges are kept as sets, since the code only
\* ever searches them.
EmptyClass == [Negated |-> FALSE, Chars |-> {}, Ranges |-> {}]

BadPattern(pi) == [ok |-> FALSE, pi |-> pi, cc |-> EmptyClass]

\* A closing test that takes a `]` as the end of the class wherever it is.
ClosesClass_Anywhere(r, firstChar) == r = closeBracket

\* Whether the rune at the cursor closes the class.
ClosesClass(r, firstChar) == r = closeBracket /\ ~firstChar

\* A closed class that leaves the cursor on the closing `]`.
Closed_OnBracket(pi, width, cc) == [ok |-> TRUE, pi |-> pi, cc |-> cc]

\* What the parser returns once the closing `]` at pi is skipped.
Closed(pi, width, cc) == [ok |-> TRUE, pi |-> pi + width, cc |-> cc]

\* A range test that takes every `-` with something after it as a range.
StartsRange_BeforeBracket(engine, pattern, pi) ==
  LET d == RuneAt(engine, pattern, pi)
  IN  d[1] = rangeDash /\ pi + d[2] < Len(pattern)

\* Whether a range follows the member just read, for a cursor pi inside the
\* pattern: a `-` that is not the last character and is not followed by `]`.
StartsRange(engine, pattern, pi) ==
  LET d == RuneAt(engine, pattern, pi)
  IN  IF d[1] = rangeDash /\ pi + d[2] < Len(pattern)
        THEN RuneAt(engine, pattern, pi + d[2])[1] # closeBracket
        ELSE FALSE

\* The body loop of the parser, from position pi on.
RECURSIVE ClassBody(_, _, _, _, _)
ClassBody(engine, pattern, pi, firstChar, cc) ==
  IF pi >= Len(pattern) THEN BadPattern(pi)          \* never closed
  ELSE
    LET r   == RuneAt(engine, pattern, pi)
    IN
    IF ClosesClass(r[1], firstChar) THEN Closed(pi, r[2], cc)
    ELSE
      LET esc  == r[1] = wildcardEscape
          pi1  == pi + r[2]
      IN
      IF esc /\ pi1 >= Len(pattern) THEN BadPattern(pi1)
      ELSE
        LET e    == RuneAt(engine, pattern, pi1)
            c1   == IF esc THEN e[1] ELSE r[1]
            pi2  == IF esc THEN pi1 + e[2] ELSE pi1
            single == [cc EXCEPT !.Chars = @ \cup {c1}]
        IN
        IF pi2 >= Len(pattern)
          THEN ClassBody(engine, pattern, pi2, FALSE, single)
        ELSE
          LET d == RuneAt(engine, pattern, pi2)
          IN
          IF ~StartsRange(engine, pattern, pi2)
            THEN ClassBody(engine, pattern, pi2, FALSE, single)
          ELSE
            LET pi3  == pi2 + d[2]
                r3   == RuneAt(engine, pattern, pi3)
                esc2 == r3[1] = wildcardEscape
                pi4  == pi3 + r3[2]
            IN
            IF esc2 /\ pi4 >= Len(pattern) THEN BadPattern(pi4)
            ELSE
              LET e2  == RuneAt(engine, pattern, pi4)
                  c2  == IF esc2 THEN e2[1] ELSE r3[1]
                  pi5 == IF esc2 THEN pi4 + e2[2] ELSE pi4
              IN
              IF c1 > c2 THEN BadPattern(pi5)
              ELSE ClassBody(engine, pattern, pi5, FALSE,
                             [cc EXCEPT !.Ranges = @ \cup {<<c1, c2>>}])

\* A parser that does not look at the character under the cursor.
NewCharClass_AnyOpener(engine, pattern, pi) ==
  IF pi >= Len(pattern) THEN BadPattern(pi)
  ELSE
    LET r == RuneAt(engine, pattern, pi)
        pi1 == pi + r[2]
    IN
    IF pi1 >= Len(pattern) THEN BadPattern(pi1)
    ELSE
      LET n   == RuneAt(engine, pattern, pi1)
          neg == n[1] = negCaret \/ n[1] = negBang
          pi2 == IF neg THEN pi1 + n[2] ELSE pi1
      IN
      IF neg /\ pi2 >= Len(pattern) THEN BadPattern(pi2)
      ELSE ClassBody(engine, pattern, pi2, TRUE,
                     [EmptyClass EXCEPT !.Negated = neg])

\* NewCharClass / NewcharClassFold: parse the bracket expression at pi.
NewCharClass(engine, pattern, pi) ==
  IF pi >= Len(pattern) THEN BadPattern(pi)
  ELSE
    LET r == RuneAt(engine, pattern, pi)
        pi1 == pi + r[2]
    IN
    IF r[1] # wildcardBracket THEN BadPattern(pi)
    ELSE IF pi1 >= Len(pattern) THEN BadPattern(pi1)
    ELSE
      LET n   == RuneAt(engine, pattern, pi1)
          neg == n[1] = negCaret \/ n[1] = negBang
          pi2 == IF neg THEN pi1 + n[2] ELSE pi1
      IN
      IF neg /\ pi2 >= Len(pattern) THEN BadPattern(pi2)
      ELSE ClassBody(engine, pattern, pi2, TRUE,
                     [EmptyClass EXCEPT !.Negated = neg])

\* The positions of the pattern the body loop reads (pattern[pi] in
\* NewCharClass, decodeRune(pi) in NewcharClassFold), from position pi on.
RECURSIVE BodyReads(_, _, _, _)
BodyReads(engine, pattern, pi, firstChar) ==
  IF pi >= Len(pattern) THEN {}
  ELSE
    LET r   == RuneAt(engine, pattern, pi)
        esc == r[1] = wildcardEscape
        pi1 == pi + r[2]
    IN
    {pi} \cup
    IF ClosesClass(r[1], firstChar) THEN {}
    ELSE IF esc /\ pi1 >= Len(pattern) THEN {}
    ELSE
      LET e   == RuneAt(engine, pattern, pi1)
          c1  == IF esc THEN e[1] ELSE r[1]
          pi2 == IF esc THEN pi1 + e[2] ELSE pi1
      IN
      (IF esc THEN {pi1} ELSE {}) \cup
      IF pi2 >= Len(pattern) THEN {}
      ELSE
        LET d   == RuneAt(engine, pattern, pi2)
            pi3 == pi2 + d[2]
        IN
        {pi2} \cup
        IF ~(d[1] = rangeDash /\ pi3 < Len(pattern))
          THEN BodyReads(engine, pattern, pi2, FALSE)
        ELSE
          {pi3} \cup
          IF ~StartsRange(engine, pattern, pi2)
            THEN BodyReads(engine, pattern, pi2, FALSE)
          ELSE
            LET r3   == RuneAt(engine, pattern, pi3)
                esc2 == r3[1] = wildcardEscape
                pi4  == pi3 + r3[2]
            IN
            IF esc2 /\ pi4 >= Len(pattern) THEN {}
            ELSE
              LET e2  == RuneAt(engine, pattern, pi4)
                  c2  == IF esc2 THEN e2[1] ELSE r3[1]
                  pi5 == IF esc2 THEN pi4 + e2[2] ELSE pi4
              IN
              (IF esc2 THEN {pi4} ELSE {}) \cup
              IF c1 > c2 THEN {}
              ELSE BodyReads(engine, pattern, pi5, FALSE)

\* The positions of the pattern the parser reads when called at pi.
ClassReads(engine, pattern, pi) ==
  IF pi >= Len(pattern) THEN {}
  ELSE
    LET r   == RuneAt(engine, pattern, pi)
        pi1 == pi + r[2]
    IN
    {pi} \cup
    IF r[1] # wildcardBracket \/ pi1 >= Len(pattern) THEN {}
    ELSE
      LET n   == RuneAt(engine, pattern, pi1)
          neg == n[1] = negCaret \/ n[1] = negBang
          pi2 == IF neg THEN pi1 + n[2] ELSE pi1
      IN
      {pi1} \cup
      IF neg /\ pi2 >= Len(pattern) THEN {}
      ELSE BodyReads(engine, pattern, pi2, TRUE)

\* A class that folds case when fold is on.
MatchesWithFold_Folding(cc, char, fold) ==
  LET hit(c) == \/ c \in cc.Chars
                \/ \E rg \in cc.Ranges : c >= rg[1] /\ c <= rg[2]
      matched == IF fold THEN \E c \in OrbitOf(char) : hit(c) ELSE hit(char)
  IN  IF cc.Negated THEN ~matched ELSE matched

\* charClassFold.MatchesWithFold / charClass.matches.
MatchesWithFold(cc, char, fold) ==
  LET matched == \/ char \in cc.Chars
                 \/ \E rg \in cc.Ranges : char >= rg[1] /\ char <= rg[2]
  IN  IF cc.Negated THEN ~matched ELSE matched

(***************************************************************************)
(* Helpers of the matcher.                                                 *)
(***************************************************************************)
\* isWildcardTable / IsWildcardByte.
IsWildcardByte(b) ==
  b \in {wildcardStar, wildcardQuestion, wildcardDot, wildcardBracket,
         wildcardEscape}

\* Go's pattern[i] for a 0-based i.
At(b, i) == b[i + 1]

\* Go's b[from:to].
Slice(b, from, to) == SubSeq(b, from + 1, to)

\* The first index >= i whose byte is neither `*` nor `?`.
RECURSIVE SkipStarQuestion(_, _)
SkipStarQuestion(pattern, i) ==
  IF i < Len(pattern)
     /\ (At(pattern, i) = wildcardStar \/ At(pattern, i) = wildcardQuestion)
    THEN SkipStarQuestion(pattern, i + 1) ELSE i

\* The first index >= i whose byte is not `?`.
RECURSIVE SkipQuestion(_, _)
SkipQuestion(pattern, i) ==
  IF i < Len(pattern) /\ At(pattern, i) = wildcardQuestion
    THEN SkipQuestion(pattern, i + 1) ELSE i

\* The end of the run of non-wildcard bytes that starts at i.
RECURSIVE LiteralEnd(_, _)
LiteralEnd(pattern, i) ==
  IF i < Len(pattern) /\ ~IsWildcardByte(At(pattern, i))
    THEN LiteralEnd(pattern, i + 1) ELSE i

\* strings.Index / bytes.Index: the first occurrence of sub in b, or -1.
Index(b, sub) ==
  LET hits == {i \in 0..(Len(b) - Len(sub)) :
                 Slice(b, i, i + Len(sub)) = sub}
  IN  IF hits = {} THEN -1 ELSE SetMin(hits)

(***************************************************************************)
(* The state of one call of the matcher.                                   *)
(***************************************************************************)
VARIABLES
  engine,          \* "MatchInternal", "MatchInternalFold" or the earlier
                   \* "MatchInternalUnified"
  fold,            \* the fold argument (FALSE for MatchInternal)
  pattern, s,      \* the arguments, as bytes
  pc,              \* "loop": top of the for loop; "backtrack": Case 4; "done"
  pIdx, sIdx,
  starIdx, sTmpIdx,
  questionIdx, qTmpIdx,
  qCount, qMatched,
  hasStarLiteral, starLiteral,
  result, err,     \* the returned (bool, error); err is TRUE for ErrBadPattern
  earlier,         \* the call made before this one and what it returned
  class,           \* what a direct call of the class parser returned
  patterns,        \* MatchMultiple: the patterns argument
  results,         \* MatchMultiple: the results slice
  errChan,         \* MatchMultiple: the error channel, its buffer and closed flag
  wg,              \* MatchMultiple: the WaitGroup counter
  goroutines,      \* MatchMultiple: each goroutine's position, match and err
  mainPc,          \* MatchMultiple: the position of the calling goroutine
  returned         \* MatchMultiple: what it returned

vars == <<engine, fold, pattern, s, pc, pIdx, sIdx, starIdx, sTmpIdx,
          questionIdx, qTmpIdx, qCount, qMatched, hasStarLiteral,
          starLiteral, result, err, earlier, class, patterns, results,
          errChan, wg, goroutines, mainPc, returned>>

multiVars == <<patterns, results, errChan, wg, goroutines, mainPc, returned>>

\* What no action of the loop changes: the arguments, the record of the
\* earlier call, the class of a direct parser call and the state of
\* MatchMultiple.
args == <<engine, fold, pattern, s, earlier, class, multiVars>>
starVars == <<starIdx, sTmpIdx, hasStarLiteral, starLiteral>>
questionVars == <<questionIdx, qTmpIdx, qCount, qMatched>>
retVars == <<result, err>>

pLen == Len(pattern)
sLen == Len(s)

\* The entry points: gowild.Match, gowild.MatchFold, and the UTF-8 engine
\* called with fold off.
Calls ==
  { [engine |-> "MatchInternal", fold |-> FALSE],
    [engine |-> "MatchInternalFold", fold |-> TRUE],
    [engine |-> "MatchInternalFold", fold |-> FALSE] }

\* No direct call of the class parser.
NotParsed == [ok |-> FALSE, pi |-> -1, cc |-> EmptyClass]

\* No call of MatchMultiple.
NoMultiple ==
  /\ patterns = <<>>
  /\ results = <<>>
  /\ errChan = [buf |-> <<>>, closed |-> FALSE]
  /\ wg = 0
  /\ goroutines = <<>>
  /\ mainPc = "none"
  /\ returned = [results |-> <<>>, isNil |-> TRUE, err |-> FALSE, from |-> 0]

\* No earlier call.
NoCall ==
  [made |-> FALSE, relation |-> "", engine |-> "", fold |-> FALSE,
   pattern |-> <<>>, s |-> <<>>, result |-> FALSE, err |-> FALSE]

\* The state at the top of the loop for the first time, for a pattern and a
\* subject given as texts.
Start(call, p, subj) ==
  /\ engine = call.engine
  /\ fold = call.fold
  /\ pattern = Utf8(p)
  /\ s = Utf8(subj)
  /\ earlier = NoCall
  /\ class = NotParsed
  /\ NoMultiple
  /\ pc = "loop"
  /\ pIdx = 0 /\ sIdx = 0
  /\ starIdx = -1 /\ sTmpIdx = -1
  /\ questionIdx = -1 /\ qTmpIdx = -1
  /\ qCount = 0 /\ qMatched = 0
  /\ hasStarLiteral = FALSE /\ starLiteral = <<>>
  /\ result = FALSE /\ err = FALSE

Return(r, e) ==
  /\ pc' = "done"
  /\ result' = r
  /\ err' = e

\* `continue` with the cursor at (p, i); the escape branches return true at
\* once when that exhausts both pattern and subject.
Advance(p, i, checkDone) ==
  /\ pIdx' = p
  /\ sIdx' = i
  /\ IF checkDone /\ p >= pLen /\ i >= sLen
       THEN Return(TRUE, FALSE)
       ELSE pc' = "loop" /\ UNCHANGED retVars

\* Fall through to Case 4.
Mismatch ==
  /\ pc' = "backtrack"
  /\ UNCHANGED <<pIdx, sIdx, retVars>>

AtStar == pIdx < pLen /\ At(pattern, pIdx) = wildcardStar
AtQuestion == pIdx < pLen /\ At(pattern, pIdx) = wildcardQuestion
BothConsumed == pIdx >= pLen /\ sIdx >= sLen

\* Control reaches Case 3.
InCase3 == pc = "loop" /\ ~BothConsumed /\ ~AtStar /\ ~AtQuestion

\* Control reaches one of the else-if branches of Case 3 that look at the
\* pattern byte b.
AtToken(b) == InCase3 /\ sIdx # sLen /\ pIdx < pLen /\ At(pattern, pIdx) = b

(***************************************************************************)
(* The loop of MatchInternal / MatchInternalFold, one action per branch.   *)
(***************************************************************************)
Success ==
  /\ pc = "loop"
  /\ BothConsumed
  /\ Return(TRUE, FALSE)
  /\ UNCHANGED <<args, pIdx, sIdx, starVars, questionVars>>

\* Whether a star whose remainder starts at i records a literal to search.
RecordsLiteral(i) ==
  /\ engine # "MatchInternalUnified"
  /\ (engine = "MatchInternal" \/ ~fold)
  /\ i < pLen
  /\ ~IsWildcardByte(At(pattern, i))

\* A star run in which every star after the first takes one character of
\* the subject.
Star_RunConsumes ==
  /\ pc = "loop" /\ ~BothConsumed /\ AtStar
  /\ LET after == SkipStarQuestion(pattern, pIdx)
         taken == IF sIdx + (after - pIdx - 1) > sLen THEN sLen
                  ELSE sIdx + (after - pIdx - 1)
     IN  /\ pIdx' = after
         /\ starIdx' = after
         /\ sIdx' = taken
         /\ sTmpIdx' = taken
         /\ hasStarLiteral' = RecordsLiteral(after)
         /\ starLiteral' = IF RecordsLiteral(after)
                             THEN Slice(pattern, after, LiteralEnd(pattern, after))
                             ELSE starLiteral
  /\ UNCHANGED <<args, pc, questionVars, retVars>>

Star ==
  /\ pc = "loop" /\ ~BothConsumed /\ AtStar
  /\ LET after == SkipStarQuestion(pattern, pIdx)
     IN  /\ pIdx' = after
         /\ starIdx' = after
         /\ sTmpIdx' = sIdx
         /\ hasStarLiteral' = RecordsLiteral(after)
         /\ starLiteral' = IF RecordsLiteral(after)
                             THEN Slice(pattern, after, LiteralEnd(pattern, after))
                             ELSE starLiteral
  /\ UNCHANGED <<args, pc, sIdx, questionVars, retVars>>

\* A question run that records a limit of one whatever its length.
Question_CountsOne ==
  /\ pc = "loop" /\ ~BothConsumed /\ AtQuestion
  /\ LET after == SkipQuestion(pattern, pIdx)
     IN  /\ qCount' = 1
         /\ pIdx' = after
         /\ questionIdx' = after
         /\ qTmpIdx' = sIdx
         /\ qMatched' = 0
  /\ UNCHANGED <<args, pc, sIdx, starVars, retVars>>

Question ==
  /\ pc = "loop" /\ ~BothConsumed /\ AtQuestion
  /\ LET after == SkipQuestion(pattern, pIdx)
     IN  /\ qCount' = after - pIdx
         /\ pIdx' = after
         /\ questionIdx' = after
         /\ qTmpIdx' = sIdx
         /\ qMatched' = 0
  /\ UNCHANGED <<args, pc, sIdx, starVars, retVars>>

SubjectEnd ==
  /\ InCase3 /\ sIdx = sLen
  /\ LET after == SkipStarQuestion(pattern, pIdx)
     IN  /\ pIdx' = after
         /\ IF after = pLen
              THEN Return(TRUE, FALSE)
              ELSE pc' = "backtrack" /\ UNCHANGED retVars
  /\ UNCHANGED <<args, sIdx, starVars, questionVars>>

\* The rune the pattern's escape stands for: the byte after the backslash,
\* or the backslash itself when it is the pattern's last byte.
EscapedRune ==
  IF pIdx + 1 >= pLen THEN wildcardEscape ELSE At(pattern, pIdx + 1)

\* An escape branch that reports a backslash at the end of the pattern as a
\* bad pattern.
Escape_TrailingIsError ==
  /\ AtToken(wildcardEscape)
  /\ LET sr == RuneAt(engine, s, sIdx)
         trailing == pIdx + 1 >= pLen
     IN  IF trailing
           THEN Return(FALSE, TRUE) /\ UNCHANGED <<pIdx, sIdx>>
         ELSE IF RunesEqual(fold, EscapedRune, sr[1])
           THEN Advance(pIdx + 2, sIdx + sr[2], TRUE)
         ELSE Mismatch
  /\ UNCHANGED <<args, starVars, questionVars>>

Escape ==
  /\ AtToken(wildcardEscape)
  /\ LET sr == RuneAt(engine, s, sIdx)
         trailing == pIdx + 1 >= pLen
         matches == IF trailing THEN sr[1] = wildcardEscape
                    ELSE RunesEqual(fold, EscapedRune, sr[1])
     IN  IF matches
           THEN Advance(IF trailing THEN pIdx + 1 ELSE pIdx + 2, sIdx + sr[2], TRUE)
           ELSE Mismatch
  /\ UNCHANGED <<args, starVars, questionVars>>

\* Whether `.` accepts the rune.
DotAccepts(r) == r # newline

Dot ==
  /\ AtToken(wildcardDot)
  /\ LET sr == RuneAt(engine, s, sIdx)
     IN  IF DotAccepts(sr[1])
           THEN Advance(pIdx + 1, sIdx + sr[2], FALSE)
           ELSE Mismatch
  /\ UNCHANGED <<args, starVars, questionVars>>

\* A bracket branch that reports a class the subject does not satisfy as a
\* bad pattern.
Bracket_MismatchIsError ==
  /\ AtToken(wildcardBracket)
  /\ LET parsed == NewCharClass(engine, pattern, pIdx)
         sr == RuneAt(engine, s, sIdx)
     IN  IF ~parsed.ok
           THEN Return(FALSE, TRUE) /\ UNCHANGED <<pIdx, sIdx>>
         ELSE IF MatchesWithFold(parsed.cc, sr[1], fold)
           THEN Advance(parsed.pi, sIdx + sr[2], FALSE)
         ELSE Return(FALSE, TRUE) /\ UNCHANGED <<pIdx, sIdx>>
  /\ UNCHANGED <<args, starVars, questionVars>>

Bracket ==
  /\ AtToken(wildcardBracket)
  /\ LET parsed == NewCharClass(engine, pattern, pIdx)
         sr == RuneAt(engine, s, sIdx)
     IN  IF ~parsed.ok
           THEN Return(FALSE, TRUE) /\ UNCHANGED <<pIdx, sIdx>>
         ELSE IF MatchesWithFold(parsed.cc, sr[1], fold)
           THEN Advance(parsed.pi, sIdx + sr[2], FALSE)
         ELSE Mismatch
  /\ UNCHANGED <<args, starVars, questionVars>>

Literal ==
  /\ InCase3 /\ sIdx # sLen /\ pIdx < pLen
  /\ ~IsWildcardByte(At(pattern, pIdx))
  /\ LET pr == RuneAt(engine, pattern, pIdx)
         sr == RuneAt(engine, s, sIdx)
     IN  IF RunesEqual(fold, pr[1], sr[1])
           THEN Advance(pIdx + pr[2], sIdx + sr[2], FALSE)
           ELSE Mismatch
  /\ UNCHANGED <<args, starVars, questionVars>>

\* The pattern is used up and the subject is not: no branch of Case 3 applies.
PatternEnd ==
  /\ InCase3 /\ sIdx # sLen /\ pIdx >= pLen
  /\ Mismatch
  /\ UNCHANGED <<args, starVars, questionVars>>

\* A question replay that ignores the length of the run.
CanReplayQuestion_Unbounded == questionIdx # -1 /\ qTmpIdx < sLen

\* A star replay that gives up one position before the end of the subject.
CanReplayStar_StopsEarly == starIdx # -1 /\ sTmpIdx + 1 < sLen

\* A star replay that is still tried with the anchor at the end of the
\* subject.
CanReplayStar_PastEnd == starIdx # -1 /\ sTmpIdx <= sLen

CanReplayQuestion == questionIdx # -1 /\ qTmpIdx < sLen /\ qMatched < qCount
CanReplayStar == starIdx # -1 /\ sTmpIdx < sLen

QuestionReplay ==
  /\ pc = "backtrack"
  /\ CanReplayQuestion
  /\ LET w == RuneAt(engine, s, qTmpIdx)[2]
     IN  /\ qTmpIdx' = qTmpIdx + w
         /\ qMatched' = qMatched + 1
         /\ pIdx' = questionIdx
         /\ sIdx' = qTmpIdx + w
  /\ pc' = "loop"
  /\ UNCHANGED <<args, starVars, questionIdx, qCount, retVars>>

\* A star replay that leaves the anchor where it is when there is no literal
\* to search for.
NextStarAnchor_Stays ==
  IF hasStarLiteral
    THEN LET nextPos == Index(Slice(s, sTmpIdx + 1, sLen), starLiteral)
         IN  IF nextPos = -1 THEN -1 ELSE sTmpIdx + nextPos + 1
    ELSE sTmpIdx

\* Where the star's subject anchor moves on a replay, or -1 when the literal
\* after the star does not occur again.
NextStarAnchor ==
  IF hasStarLiteral
    THEN LET nextPos == Index(Slice(s, sTmpIdx + 1, sLen), starLiteral)
         IN  IF nextPos = -1 THEN -1 ELSE sTmpIdx + nextPos + 1
    ELSE sTmpIdx + 1

StarReplay ==
  /\ pc = "backtrack"
  /\ ~CanReplayQuestion
  /\ CanReplayStar
  /\ questionIdx' = -1 /\ qTmpIdx' = -1
  /\ qCount' = 0 /\ qMatched' = 0
  /\ pIdx' = starIdx
  /\ IF NextStarAnchor = -1
       THEN Return(FALSE, FALSE) /\ UNCHANGED <<sTmpIdx, sIdx>>
       ELSE /\ sTmpIdx' = NextStarAnchor
            /\ sIdx' = NextStarAnchor
            /\ pc' = "loop"
            /\ UNCHANGED retVars
  /\ UNCHANGED <<args, starIdx, hasStarLiteral, starLiteral>>

NoBacktrack ==
  /\ pc = "backtrack"
  /\ ~CanReplayQuestion
  /\ ~CanReplayStar
  /\ Return(FALSE, FALSE)
  /\ UNCHANGED <<args, pIdx, sIdx, starVars, questionVars>>

Next ==
  \/ Success
  \/ Star
  \/ Question
  \/ SubjectEnd
  \/ Escape
  \/ Dot
  \/ Bracket
  \/ Literal
  \/ PatternEnd
  \/ QuestionReplay
  \/ StarReplay
  \/ NoBacktrack

(***************************************************************************)
(* Inputs.                                                                 *)
(***************************************************************************)
\* The concatenations of at most n members of toks.
RECURSIVE Concats(_, _)
Concats(toks, n) ==
  IF n = 0 THEN {<<>>}
  ELSE LET prev == Concats(toks, n - 1)
       IN  prev \cup {p \o t : p \in prev, t \in toks}

\* The texts of at most n characters over an alphabet.
Texts(alphabet, n) == Concats({<<c>> : c \in alphabet}, n)

\* Tokens a pattern is built from: wildcards, a literal, an escaped
\* two-byte codepoint, a negated class and an inverted range.
PatternTokens ==
  { Text(<<"*">>), Text(<<"?">>), Text(<<".">>), Text(<<"a">>),
    Text(<<"\\", "e'">>), Text(<<"[", "^", "e'", "]">>),
    Text(<<"[", "b", "-", "a", "]">>) }

SubjectAlphabet == {Ord["a"], Ord["e'"], Ord[" "]}

\* The cases the documentation and the tests spell out, as
\* <<pattern, subject>>.
DocumentedCases ==
  { <<Text(<<"?">>), Text(<<>>)>>,
    <<Text(<<"?">>), Text(<<"a">>)>>,
    <<Text(<<"?">>), Text(<<"a", "b">>)>>,
    <<Text(<<"?", "?", "?">>), Text(<<>>)>>,
    <<Text(<<".">>), Text(<<" ">>)>>,
    <<Text(<<".">>), Text(<<"\t">>)>>,
    <<Text(<<".">>), Text(<<"\r">>)>>,
    <<Text(<<".">>), Text(<<"\n">>)>>,
    <<Text(<<".">>), Text(<<"a">>)>>,
    <<Text(<<".">>), Text(<<>>)>>,
    <<Text(<<"[", "a", "-", "z", "]", "b", "c">>), Text(<<"A", "b", "c">>)>>,
    <<Text(<<"[", "a", "-", "z", "]", "b", "c">>), Text(<<"a", "b", "c">>)>>,
    <<Text(<<"A", "B", "C">>), Text(<<"a", "b", "c">>)>>,
    <<Text(<<"a", "\\", "*", "b">>), Text(<<"a", "*", "b">>)>>,
    <<Text(<<"a", "\\", "*", "b">>), Text(<<"a", "x", "b">>)>>,
    <<Text(<<"a", "\\">>), Text(<<"a", "\\">>)>>,
    <<Text(<<"a", "*", "*", "b">>), Text(<<"a", "x", "b">>)>>,
    <<Text(<<"a", "*", "b">>), Text(<<"a", "x", "b">>)>>,
    <<Text(<<"a", "*", "b">>), Text(<<"a", "x", "c">>)>>,
    <<Text(<<"[", "z", "-", "a", "]">>), Text(<<"b">>)>>,
    <<Text(<<"[", "z", "-", "a", "]">>), Text(<<"x">>)>>,
    <<Text(<<"[", "!", "a", "b", "c", "]">>), Text(<<"x">>)>>,
    <<Text(<<"[", "!", "a", "b", "c", "]">>), Text(<<"a">>)>>,
    <<Text(<<"*">>), Text(<<"e'", "a">>)>>,
    <<Text(<<"*", "a", "?">>), Text(<<"x", "a", "b">>)>> }

\* Every entry point on every input of a set of <<pattern, subject>> pairs.
StartOn(inputs) ==
  \E c \in Calls, in \in inputs : Start(c, in[1], in[2])

GeneralInputs ==
  Concats(PatternTokens, MaxPatToks) \X Texts(SubjectAlphabet, MaxSubLen)

Init == StartOn(GeneralInputs \cup DocumentedCases)

Spec == Init /\ [][Next]_vars

\* Patterns of `?` and a literal against subjects of one- and two-byte
\* codepoints, one longer than the longest run.
QuestionInputs ==
  Concats({Text(<<"?">>), Text(<<"a">>)}, MaxPatToks)
    \X Texts({Ord["a"], Ord["e'"]}, MaxSubLen + 1)

InitQuestion == StartOn(QuestionInputs \cup DocumentedCases)

SpecQuestion == InitQuestion /\ [][Next]_vars

\* The lone star against every subject.
StarInputs == {Text(<<"*">>)} \X Texts(SubjectAlphabet \cup {Ord["\n"]}, MaxSubLen)

InitStar == StartOn(StarInputs \cup DocumentedCases)

SpecStar == InitStar /\ [][Next]_vars

\* Patterns without any wildcard byte against subjects over the same
\* alphabet.
LiteralAlphabet == {Ord["a"], Ord["A"], Ord["e'"], Ord["]"]}

LiteralInputs ==
  Texts(LiteralAlphabet, MaxPatToks) \X Texts(LiteralAlphabet, MaxSubLen)

InitLiteral == StartOn(LiteralInputs \cup DocumentedCases)

SpecLiteral == InitLiteral /\ [][Next]_vars

\* One well-formed bracket expression against one character.
ClassPatterns ==
  { Text(<<"[", "a", "-", "z", "]">>), Text(<<"[", "^", "a", "-", "z", "]">>),
    Text(<<"[", "A", "-", "Z", "]">>), Text(<<"[", "k", "]">>),
    Text(<<"[", "!", "K", "]">>), Text(<<"[", "e'", "]">>),
    Text(<<"[", "^", "E'", "]">>), Text(<<"[", "a", "-", "z", "A", "]">>),
    Text(<<"[", "\\", "]", "-", "e'", "]">>) }

ClassSubjects ==
  { <<Ord[n]>> : n \in {"a", "A", "z", "k", "K", "Kelvin", "e'", "E'", "]", "^"} }

InitClass == StartOn((ClassPatterns \X ClassSubjects) \cup DocumentedCases)

SpecClass == InitClass /\ [][Next]_vars

\* Patterns whose bracket expressions are all well formed: a negated class
\* of a two-byte codepoint, a class that starts with `]`, and an escaped `[`.
WellFormedTokens ==
  { Text(<<"*">>), Text(<<"a">>), Text(<<"[", "^", "e'", "]">>),
    Text(<<"[", "]", "a", "]">>), Text(<<"\\", "[">>) }

WellFormedInputs ==
  Concats(WellFormedTokens, MaxPatToks)
    \X Texts({Ord["a"], Ord["e'"], Ord["["]}, MaxSubLen)

InitWellFormed == StartOn(WellFormedInputs \cup DocumentedCases)

SpecWellFormed == InitWellFormed /\ [][Next]_vars

\* Stars, question marks and a literal against subjects of one- and
\* two-byte codepoints; the loop is run to its end, one iteration after
\* the other.
BacktrackInputs ==
  Concats({Text(<<"*">>), Text(<<"?">>), Text(<<"a">>)}, MaxPatToks)
    \X Texts({Ord["a"], Ord["e'"]}, MaxSubLen)

InitBacktrack == StartOn(BacktrackInputs \cup DocumentedCases)

SpecBacktrack == InitBacktrack /\ [][Next]_vars /\ WF_vars(Next)

\* Literal text, possibly ending in a backslash, against subjects over the
\* same alphabet in either case.
TrailingEscapeInputs ==
  Concats({Text(<<"a">>), Text(<<"e'">>), Text(<<"\\">>)}, MaxPatToks)
    \X Texts({Ord["a"], Ord["A"], Ord["e'"], Ord["\\"]}, MaxSubLen)

InitTrailingEscape == StartOn(TrailingEscapeInputs \cup DocumentedCases)

SpecTrailingEscape == InitTrailingEscape /\ [][Next]_vars

\* Patterns whose mismatches are replayed from a question checkpoint, a star
\* checkpoint or both, on subjects with a four-byte codepoint.
ReplayTokens ==
  { Text(<<"*">>), Text(<<"?">>), Text(<<".", "?">>), Text(<<"a">>) }

ReplayInputs ==
  Concats(ReplayTokens, MaxPatToks)
    \X Texts({Ord["a"], Ord["b"], Ord["U+10000"]}, MaxSubLen - 1)

InitReplay == StartOn(ReplayInputs \cup DocumentedCases)

SpecReplay == InitReplay /\ [][Next]_vars

(***************************************************************************)
(* A second call on related arguments.                                     *)
(***************************************************************************)
\* Once a call has returned, call engine e again with fold f on pattern p
\* and subject subj, remembering the returned call under the name of the
\* relation between the two.
CallAgain(relation, e, f, p, subj) ==
  /\ pc = "done"
  /\ ~earlier.made
  /\ earlier' = [made |-> TRUE, relation |-> relation, engine |-> engine,
                 fold |-> fold, pattern |-> pattern, s |-> s,
                 result |-> result, err |-> err]
  /\ engine' = e /\ fold' = f /\ pattern' = p /\ s' = subj
  /\ pc' = "loop"
  /\ pIdx' = 0 /\ sIdx' = 0
  /\ starIdx' = -1 /\ sTmpIdx' = -1
  /\ questionIdx' = -1 /\ qTmpIdx' = -1
  /\ qCount' = 0 /\ qMatched' = 0
  /\ hasStarLiteral' = FALSE /\ starLiteral' = <<>>
  /\ result' = FALSE /\ err' = FALSE
  /\ UNCHANGED <<class, multiVars>>

\* The second call has returned.
BothReturned(relation) ==
  pc = "done" /\ earlier.made /\ earlier.relation = relation

\* The pattern from byte i on with every run of unescaped `*` replaced by a
\* single `*`; a backslash escapes the byte after it.
RECURSIVE CollapseStars(_, _)
CollapseStars(p, i) ==
  IF i >= Len(p) THEN <<>>
  ELSE IF At(p, i) = wildcardEscape
    THEN Slice(p, i, IF i + 2 <= Len(p) THEN i + 2 ELSE Len(p))
           \o CollapseStars(p, i + 2)
  ELSE IF At(p, i) = wildcardStar /\ i + 1 < Len(p)
          /\ At(p, i + 1) = wildcardStar
    THEN CollapseStars(p, i + 1)
  ELSE <<At(p, i)>> \o CollapseStars(p, i + 1)

\* The same call on the pattern with its star runs collapsed.
CollapsedCall ==
  /\ CollapseStars(pattern, 0) # pattern
  /\ CallAgain("collapsed", engine, fold, CollapseStars(pattern, 0), s)

NextCollapsed == Next \/ CollapsedCall

\* Patterns with runs of stars among literals, question marks, escapes and
\* a class that holds a run of stars.
StarRunTokens ==
  { Text(<<"*">>), Text(<<"*", "*">>), Text(<<"a">>), Text(<<"?">>),
    Text(<<"\\">>), Text(<<"[", "*", "*", "]">>) }

StarRunInputs ==
  Concats(StarRunTokens, MaxPatToks) \X Texts({Ord["a"], Ord["*"]}, MaxSubLen)

InitCollapsed == StartOn(StarRunInputs \cup DocumentedCases)

SpecCollapsed == InitCollapsed /\ [][NextCollapsed]_vars

\* The same call made to the unified MatchInternal(pattern, s, fold), the
\* matcher MatchInternalFold was derived from: the same loop without the
\* literal recorded at a star, so that every star replay advances the anchor
\* by one.
UnifiedCall ==
  /\ engine = "MatchInternalFold"
  /\ CallAgain("unified", "MatchInternalUnified", fold, pattern, s)

NextUnified == Next \/ UnifiedCall

\* Patterns with a star before a run of literals, on subjects in which the
\* run occurs early, late or not at all.
JumpTokens ==
  { Text(<<"*">>), Text(<<"a">>), Text(<<"b">>), Text(<<"?">>),
    Text(<<"e'">>), Text(<<"U+FFFD">>) }

JumpInputs ==
  Concats(JumpTokens, MaxPatToks)
    \X Texts({Ord["a"], Ord["b"], Ord["e'"]}, MaxSubLen)

InitUnified == StartOn(JumpInputs \cup DocumentedCases)

SpecUnified == InitUnified /\ [][NextUnified]_vars

\* Patterns cut off anywhere inside a class, a range or an escape, on
\* subjects of one- and two-byte characters.
BoundsTokens ==
  { Text(<<"*">>), Text(<<"?">>), Text(<<"a">>), Text(<<"\\">>),
    Text(<<"[">>), Text(<<"]">>), Text(<<"^">>), Text(<<"[", "a", "-">>),
    Text(<<"e'">>) }

BoundsInputs ==
  Concats(BoundsTokens, MaxPatToks)
    \X Texts({Ord["a"], Ord["e'"]}, MaxSubLen - 1)

InitBounds == StartOn(BoundsInputs \cup DocumentedCases)

SpecBounds == InitBounds /\ [][Next]_vars

\* After a call of the byte engine, the same call of the UTF-8 engine with
\* fold off.
UnicodeCall ==
  /\ engine = "MatchInternal"
  /\ CallAgain("unicode", "MatchInternalFold", FALSE, pattern, s)

NextUnicode == Next \/ UnicodeCall

\* ASCII patterns of every kind of token, well-formed and not, on ASCII
\* subjects.
AsciiTokens ==
  { Text(<<"*">>), Text(<<"?">>), Text(<<".">>), Text(<<"a">>),
    Text(<<"\\">>), Text(<<"[", "^", "a", "]">>),
    Text(<<"[", "b", "-", "a", "]">>) }

AsciiInputs ==
  Concats(AsciiTokens, MaxPatToks)
    \X Texts({Ord["a"], Ord["A"], Ord["\n"]}, MaxSubLen)

InitUnicode == StartOn(AsciiInputs \cup DocumentedCases)

SpecUnicode == InitUnicode /\ [][NextUnicode]_vars

\* The same call with fold on, after a call with fold off.
FoldCall ==
  /\ engine = "MatchInternalFold"
  /\ ~fold
  /\ CallAgain("fold", "MatchInternalFold", TRUE, pattern, s)

NextFold == Next \/ FoldCall

\* Patterns and subjects over letters in both cases and a caseless one.
FoldTokens ==
  { Text(<<"*">>), Text(<<"?">>), Text(<<"a">>), Text(<<"A">>),
    Text(<<"U+FFFD">>) }

FoldInputs ==
  Concats(FoldTokens, MaxPatToks)
    \X Texts({Ord["a"], Ord["A"], Ord["x"], Ord["e'"]}, MaxSubLen)

InitFold == StartOn(FoldInputs \cup DocumentedCases)

SpecFold == InitFold /\ [][NextFold]_vars

(***************************************************************************)
(* Direct calls of the class parser.                                       *)
(***************************************************************************)
\* NewCharClass(pattern, pIdx) is called and what it returns is kept.
ParseCall ==
  /\ pc = "parse"
  /\ class' = NewCharClass(engine, pattern, pIdx)
  /\ pc' = "parsed"
  /\ UNCHANGED <<engine, fold, pattern, s, earlier, multiVars, pIdx, sIdx,
                 starVars, questionVars, retVars>>

NextParse == Next \/ ParseCall

\* Bracket expressions that are well formed by construction: `[`, an
\* optional negation, a body and the closing `]`. The body is an optional
\* first `]` or `-`, then members, ranges in order and escapes, then an
\* optional last `-`.
ClassNegations == {Text(<<>>), Text(<<"^">>), Text(<<"!">>)}
ClassFirstItems == {Text(<<>>), Text(<<"]">>), Text(<<"-">>)}
ClassLastItems == {Text(<<>>), Text(<<"-">>)}

ClassMiddleItems ==
  { Text(<<"a">>), Text(<<"z">>), Text(<<"e'">>), Text(<<"a", "-", "z">>),
    Text(<<"\\", "]">>), Text(<<"a", "-", "\\", "z">>) }

ClassBodies(n) ==
  { first \o middle \o last :
      first \in ClassFirstItems, middle \in Concats(ClassMiddleItems, n),
      last \in ClassLastItems } \ {<<>>}

WellFormedClasses ==
  { Text(<<"[">>) \o neg \o body \o Text(<<"]">>) :
      neg \in ClassNegations, body \in ClassBodies(MaxPatToks - 1) }

\* Every proper prefix of a well-formed class: the pattern ends before the
\* closing `]`, or on a backslash, or (the empty prefix) has no `[`.
ProperPrefixes(text) == { SubSeq(text, 1, k) : k \in 0..(Len(text) - 1) }

UnclosedClasses == UNION { ProperPrefixes(c) : c \in WellFormedClasses }

\* A well-formed class with the range z-a put into its body.
InvertedClasses ==
  { Text(<<"[">>) \o neg \o first \o before \o Text(<<"z", "-", "a">>)
      \o after \o last \o Text(<<"]">>) :
      neg \in ClassNegations, first \in ClassFirstItems,
      before \in Concats(ClassMiddleItems, MaxPatToks - 2),
      after \in Concats(ClassMiddleItems, MaxPatToks - 2),
      last \in ClassLastItems }

\* A well-formed class after one literal.
OffsetClasses == { Text(<<"a">>) \o c : c \in WellFormedClasses }

\* A well-formed class followed by more pattern text.
FollowedClasses ==
  { c \o after : c \in WellFormedClasses,
                 after \in {Text(<<"]">>), Text(<<"a">>)} }

\* The two parsers, by the engine that calls them.
Parsers == {"MatchInternal", "MatchInternalFold"}

\* The parser is called at position 0 or 1 of each of these patterns.
ParseInputs ==
  WellFormedClasses \cup UnclosedClasses \cup InvertedClasses
    \cup OffsetClasses \cup FollowedClasses

StartParse(e, p, pi) ==
  /\ engine = e
  /\ fold = FALSE
  /\ pattern = Utf8(p)
  /\ s = <<>>
  /\ earlier = NoCall
  /\ class = NotParsed
  /\ NoMultiple
  /\ pc = "parse"
  /\ pIdx = pi /\ sIdx = 0
  /\ starIdx = -1 /\ sTmpIdx = -1
  /\ questionIdx = -1 /\ qTmpIdx = -1
  /\ qCount = 0 /\ qMatched = 0
  /\ hasStarLiteral = FALSE /\ starLiteral = <<>>
  /\ result = FALSE /\ err = FALSE

\* Patterns built around one class, for whole matches.
BracketPatterns ==
  { Text(<<"[", "]", "]">>), Text(<<"[", "^", "]", "]">>),
    Text(<<"[", "]", "a", "]">>), Text(<<"[", "a", "]", "]">>),
    Text(<<"[", "a", "]">>), Text(<<"[", "-", "a", "z", "]">>),
    Text(<<"[", "a", "-", "]">>), Text(<<"[", "-", "a", "]">>),
    Text(<<"[", "a", "-", "z", "]">>), Text(<<"[", "a", "-", "c", "]", "]">>),
    Text(<<"[", "-", "]">>), Text(<<"[", "a", "]", "*">>) }

BracketInputs ==
  BracketPatterns
    \X Texts({Ord["a"], Ord["b"], Ord["z"], Ord["]"], Ord["-"]}, MaxSubLen - 1)

InitParse ==
  \/ \E e \in Parsers, p \in ParseInputs, pi \in {0, 1} : StartParse(e, p, pi)
  \/ StartOn(BracketInputs \cup DocumentedCases)

SpecParse == InitParse /\ [][NextParse]_vars

(***************************************************************************)
(* The generic dispatcher Match over string, []byte and []rune, with its   *)
(* fast paths, iterativeMatch and matchRecursiveRunes.                     *)
(***************************************************************************)
\* What a call returns.
Returns(r, e) == [result |-> r, err |-> e]

\* strings.ContainsAny(b, wildcardChars) / slices.ContainsFunc(b, isWildcard).
ContainsWildcard(b) == \E i \in 1..Len(b) : IsWildcardByte(b[i])

\* strings.HasPrefix, strings.HasSuffix, strings.Contains.
HasPrefix(b, prefix) ==
  Len(b) >= Len(prefix) /\ Slice(b, 0, Len(prefix)) = prefix

HasSuffix(b, suffix) ==
  Len(b) >= Len(suffix) /\ Slice(b, Len(b) - Len(suffix), Len(b)) = suffix

Contains(b, sub) == Index(b, sub) # -1

\* fastPatternMatchString / fastPatternMatchBytes: <<matched, ok>>.
fastPatternMatchString(p, subj) ==
  LET n      == Len(p)
      first  == Index(p, <<wildcardStar>>)
      middle == Slice(p, 1, n - 1)
      allBut == Slice(p, 0, n - 1)
      rest   == Slice(p, 1, n)
      before == Slice(p, 0, first)
      after  == Slice(p, first + 1, n)
  IN  IF n >= 2 /\ At(p, 0) = wildcardStar /\ At(p, n - 1) = wildcardStar
         /\ ~ContainsWildcard(middle)
        THEN <<Contains(subj, middle), TRUE>>
      ELSE IF n >= 1 /\ At(p, n - 1) = wildcardStar /\ ~ContainsWildcard(allBut)
        THEN <<HasPrefix(subj, allBut), TRUE>>
      ELSE IF n >= 1 /\ At(p, 0) = wildcardStar /\ ~ContainsWildcard(rest)
        THEN <<HasSuffix(subj, rest), TRUE>>
      ELSE IF first # -1 /\ before # <<>> /\ after # <<>>
              /\ ~ContainsWildcard(before) /\ ~ContainsWildcard(after)
        THEN << /\ Len(subj) >= Len(before) + Len(after)
                /\ HasPrefix(subj, before)
                /\ HasSuffix(subj, after), TRUE>>
      ELSE <<FALSE, FALSE>>

\* unicode.IsSpace.
IsSpace(r) ==
  \/ r \in {9, 10, 11, 12, 13, 32, 133, 160, 5760, 8232, 8233, 8239, 8287, 12288}
  \/ (r >= 8192 /\ r <= 8202)

\* parseCharClassString: the bracket expression at byte pi, read byte by
\* byte; the loop ends at the closing bracket or at the end of the pattern.
RECURSIVE parseCharClassBody(_, _, _, _)
parseCharClassBody(p, pi, firstChar, cc) ==
  IF pi >= Len(p) THEN [ok |-> TRUE, pi |-> pi, cc |-> cc]
  ELSE IF At(p, pi) = closeBracket /\ ~firstChar
    THEN [ok |-> TRUE, pi |-> pi + 1, cc |-> cc]
  ELSE
    LET esc == At(p, pi) = wildcardEscape
        pi1 == IF esc THEN pi + 1 ELSE pi
    IN
    IF esc /\ pi + 1 >= Len(p) THEN BadPattern(pi)
    ELSE
      LET c1  == At(p, pi1)
          pi2 == pi1 + 1
      IN
      IF pi2 + 1 < Len(p) /\ At(p, pi2) = rangeDash
         /\ At(p, pi2 + 1) # closeBracket
        THEN
          LET pi3  == pi2 + 1
              esc2 == At(p, pi3) = wildcardEscape
              pi4  == IF esc2 THEN pi3 + 1 ELSE pi3
          IN
          IF esc2 /\ pi3 + 1 >= Len(p) THEN BadPattern(pi3)
          ELSE IF pi4 >= Len(p) THEN BadPattern(pi4)
          ELSE IF c1 > At(p, pi4) THEN BadPattern(pi4 + 1)
          ELSE parseCharClassBody(p, pi4 + 1, FALSE,
                 [cc EXCEPT !.Ranges = @ \cup {<<c1, At(p, pi4)>>}])
        ELSE parseCharClassBody(p, pi2, FALSE,
                                [cc EXCEPT !.Chars = @ \cup {c1}])

parseCharClassString(p, pi) ==
  IF pi >= Len(p) THEN BadPattern(pi)
  ELSE IF At(p, pi) # wildcardBracket THEN BadPattern(pi)
  ELSE IF pi + 1 >= Len(p) THEN BadPattern(pi + 1)
  ELSE
    LET neg == At(p, pi + 1) = negCaret \/ At(p, pi + 1) = negBang
        pi2 == IF neg THEN pi + 2 ELSE pi + 1
    IN  IF neg /\ pi2 >= Len(p) THEN BadPattern(pi2)
        ELSE parseCharClassBody(p, pi2, TRUE,
                                [EmptyClass EXCEPT !.Negated = neg])

\* CharClass.Matches.
Matches(cc, char) ==
  LET matched == \/ char \in cc.Chars
                 \/ \E rg \in cc.Ranges : char >= rg[1] /\ char <= rg[2]
  IN  IF cc.Negated THEN ~matched ELSE matched

\* The counting loop of the `?` case: <<runeCount, tempSIdx>> after decoding
\* at most run (the length of the `?` run) runes of the subject from byte i on.
RECURSIVE CountRunes(_, _, _, _)
CountRunes(subj, i, run, runeCount) ==
  IF i < Len(subj) /\ runeCount < run
    THEN CountRunes(subj, i + DecodeRune(subj, i)[2], run, runeCount + 1)
    ELSE <<runeCount, i>>

\* The first index >= i whose byte is not `*`.
RECURSIVE SkipStar(_, _)
SkipStar(p, i) ==
  IF i < Len(p) /\ At(p, i) = wildcardStar THEN SkipStar(p, i + 1) ELSE i

\* iterativeMatch, from the top of its loop in the given state. Nothing is
\* ever pushed on backtrackStack, so only the star checkpoint is replayed.
RECURSIVE iterativeMatchFrom(_, _, _, _, _, _)
iterativeMatchFrom(p, subj, pi, si, star, sTmp) ==
  LET backtrack ==
        IF star # -1 /\ sTmp < Len(subj)
          THEN iterativeMatchFrom(p, subj, star + 1, sTmp + 1, star, sTmp + 1)
          ELSE Returns(FALSE, FALSE)
      run == SkipQuestion(p, pi) - pi
      counted == CountRunes(subj, si, run, 0)
      sc == At(subj, si)
  IN
  IF pi >= Len(p) /\ si >= Len(subj) THEN Returns(TRUE, FALSE)
  ELSE IF pi < Len(p) /\ At(p, pi) = wildcardStar
    THEN iterativeMatchFrom(p, subj, pi + 1, si, pi, si)
  ELSE IF pi < Len(p) /\ At(p, pi) = wildcardQuestion /\ counted[1] >= run
    THEN iterativeMatchFrom(p, subj, pi + run, counted[2], star, sTmp)
  ELSE IF si = Len(subj)
    THEN IF SkipStar(p, pi) = Len(p) THEN Returns(TRUE, FALSE) ELSE backtrack
  ELSE IF pi < Len(p) /\ At(p, pi) = wildcardEscape
    THEN IF pi + 1 >= Len(p)
           THEN IF sc = wildcardEscape
                  THEN iterativeMatchFrom(p, subj, pi + 1, si + 1, star, sTmp)
                  ELSE backtrack
           ELSE IF At(p, pi + 1) = sc
                  THEN iterativeMatchFrom(p, subj, pi + 2, si + 1, star, sTmp)
                  ELSE backtrack
  ELSE IF pi < Len(p) /\ At(p, pi) = wildcardDot
    THEN IF IsSpace(sc) THEN backtrack
         ELSE iterativeMatchFrom(p, subj, pi + 1, si + 1, star, sTmp)
  ELSE IF pi < Len(p) /\ At(p, pi) = sc
    THEN iterativeMatchFrom(p, subj, pi + 1, si + 1, star, sTmp)
  ELSE IF pi < Len(p) /\ At(p, pi) = wildcardBracket
    THEN LET parsed == parseCharClassString(p, pi)
         IN  IF ~parsed.ok THEN Returns(FALSE, TRUE)
             ELSE IF Matches(parsed.cc, sc)
               THEN iterativeMatchFrom(p, subj, parsed.pi, si + 1, star, sTmp)
             ELSE backtrack
  ELSE backtrack

iterativeMatch(p, subj) == iterativeMatchFrom(p, subj, 0, 0, -1, -1)

\* matchRecursiveRunes; its star loop tries the rest of the pattern at every
\* si up to slen, and stops at the first error or match.
RECURSIVE matchRecursiveRunes(_, _, _, _)
RECURSIVE StarLoopRunes(_, _, _, _)
StarLoopRunes(p, subj, pi, si) ==
  IF si > Len(subj) THEN Returns(FALSE, FALSE)
  ELSE LET r == matchRecursiveRunes(p, subj, pi, si)
       IN  IF r.err THEN Returns(FALSE, TRUE)
           ELSE IF r.result THEN Returns(TRUE, FALSE)
           ELSE StarLoopRunes(p, subj, pi, si + 1)

matchRecursiveRunes(p, subj, pi, si) ==
  IF pi >= Len(p) THEN Returns(si = Len(subj), FALSE)
  ELSE IF At(p, pi) = wildcardStar
    THEN IF SkipStar(p, pi) = Len(p) THEN Returns(TRUE, FALSE)
         ELSE StarLoopRunes(p, subj, SkipStar(p, pi), si)
  ELSE IF At(p, pi) = wildcardQuestion
    THEN IF si >= Len(subj) THEN Returns(FALSE, FALSE)
         ELSE matchRecursiveRunes(p, subj, pi + 1, si + 1)
  ELSE IF At(p, pi) = wildcardDot
    THEN IF si >= Len(subj) THEN Returns(FALSE, FALSE)
         ELSE IF IsSpace(At(subj, si)) THEN Returns(FALSE, FALSE)
         ELSE matchRecursiveRunes(p, subj, pi + 1, si + 1)
  ELSE IF si >= Len(subj) \/ At(subj, si) # At(p, pi) THEN Returns(FALSE, FALSE)
  ELSE matchRecursiveRunes(p, subj, pi + 1, si + 1)

\* Match: the dispatcher on the representation of its arguments; p and subj
\* are bytes for "string" and "[]byte" and codepoints for "[]rune".
Match(representation, p, subj) ==
  LET fast == fastPatternMatchString(p, subj)
  IN  IF representation = "string"
        THEN IF p = <<wildcardStar>> THEN Returns(TRUE, FALSE)
             ELSE IF ~ContainsWildcard(p) THEN Returns(p = subj, FALSE)
             ELSE IF fast[2] THEN Returns(fast[1], FALSE)
             ELSE iterativeMatch(p, subj)
      ELSE IF representation = "[]byte"
        THEN IF ~ContainsWildcard(p) THEN Returns(p = subj, FALSE)
             ELSE IF p = <<wildcardStar>> THEN Returns(TRUE, FALSE)
             ELSE IF fast[2] THEN Returns(fast[1], FALSE)
             ELSE iterativeMatch(p, subj)
      ELSE IF ~ContainsWildcard(p) THEN Returns(p = subj, FALSE)
           ELSE IF p = <<wildcardStar>> THEN Returns(TRUE, FALSE)
           ELSE matchRecursiveRunes(p, subj, 0, 0)

(***************************************************************************)
(* The documented meaning of a pattern, on codepoints.                     *)
(***************************************************************************)
\* The codepoints of a byte string, from byte position pos on.
RECURSIVE RunesFrom(_, _)
RunesFrom(b, pos) ==
  IF pos >= Len(b) THEN <<>>
  ELSE LET d == DecodeRune(b, pos) IN <<d[1]>> \o RunesFrom(b, pos + d[2])

Runes(b) == RunesFrom(b, 0)

\* The bracket expression at 0-based position i of a text, parsed with one
\* codepoint as the unit.
ClassAt(p, i) == NewCharClass("MatchInternal", p, i)

\* Spells(p, i, t, j, f): the tokens of text p from position i on can be
\* expanded to spell text t from position j on (0-based), where `*` takes
\* zero or more codepoints, `?` zero or one, `.` one that is not a newline,
\* a class one member, an escape and a literal their own codepoint (up to
\* case folding when f).
RECURSIVE Spells(_, _, _, _, _)
Spells(p, i, t, j, f) ==
  IF i >= Len(p) THEN j >= Len(t)
  ELSE
    LET c == At(p, i)
        more == j < Len(t)
    IN
    IF c = wildcardStar
      THEN \E k \in j..Len(t) : Spells(p, i + 1, t, k, f)
    ELSE IF c = wildcardQuestion
      THEN \/ Spells(p, i + 1, t, j, f)
           \/ more /\ Spells(p, i + 1, t, j + 1, f)
    ELSE IF c = wildcardDot
      THEN more /\ At(t, j) # newline /\ Spells(p, i + 1, t, j + 1, f)
    ELSE IF c = wildcardEscape
      THEN IF i + 1 >= Len(p)
             THEN more /\ At(t, j) = wildcardEscape /\ j + 1 >= Len(t)
             ELSE /\ more
                  /\ RunesEqual(f, At(p, i + 1), At(t, j))
                  /\ Spells(p, i + 2, t, j + 1, f)
    ELSE IF c = wildcardBracket
      THEN LET parsed == ClassAt(p, i)
           IN  /\ parsed.ok
               /\ more
               /\ MatchesWithFold(parsed.cc, At(t, j), FALSE)
               /\ Spells(p, parsed.pi, t, j + 1, f)
    ELSE more /\ RunesEqual(f, c, At(t, j)) /\ Spells(p, i + 1, t, j + 1, f)

\* The pattern text spells the whole subject text.
SpellsSubject == Spells(Runes(pattern), 0, Runes(s), 0, fold)

\* Walking the tokens of a text from position i, some bracket expression
\* does not parse.
RECURSIVE MalformedFrom(_, _)
MalformedFrom(p, i) ==
  IF i >= Len(p) THEN FALSE
  ELSE IF At(p, i) = wildcardEscape THEN MalformedFrom(p, i + 2)
  ELSE IF At(p, i) = wildcardBracket
    THEN LET parsed == ClassAt(p, i)
         IN  ~parsed.ok \/ MalformedFrom(p, parsed.pi)
  ELSE MalformedFrom(p, i + 1)

Malformed == MalformedFrom(Runes(pattern), 0)

Returned == pc = "done"

(***************************************************************************)
(* Calls of Match on one text in its three representations.                *)
(***************************************************************************)
RepresentationOf(e) ==
  IF e = "Match(string)" THEN "string"
  ELSE IF e = "Match([]byte)" THEN "[]byte"
  ELSE "[]rune"

\* The call itself.
MatchCall ==
  /\ pc = "call"
  /\ LET r == Match(RepresentationOf(engine), pattern, s)
     IN  Return(r.result, r.err)
  /\ UNCHANGED <<args, pIdx, sIdx, starVars, questionVars>>

\* After the call on strings, the call on the same text converted with
\* []byte(...) or []rune(...).
ConvertedCall ==
  /\ pc = "done"
  /\ ~earlier.made
  /\ engine = "Match(string)"
  /\ \E e \in {"Match([]byte)", "Match([]rune)"} :
       /\ engine' = e
       /\ pattern' = IF e = "Match([]rune)" THEN Runes(pattern) ELSE pattern
       /\ s' = IF e = "Match([]rune)" THEN Runes(s) ELSE s
  /\ earlier' = [made |-> TRUE, relation |-> "representation",
                 engine |-> engine, fold |-> fold, pattern |-> pattern,
                 s |-> s, result |-> result, err |-> err]
  /\ pc' = "call"
  /\ result' = FALSE /\ err' = FALSE
  /\ UNCHANGED <<fold, class, multiVars, pIdx, sIdx, starVars, questionVars>>

NextRepresentation == MatchCall \/ ConvertedCall

\* Texts of wildcards, literals of one and two bytes and a class, against
\* subjects of one- and two-byte codepoints and a space.
RepresentationInputs ==
  Concats({Text(<<"*">>), Text(<<"?">>), Text(<<".">>), Text(<<"a">>),
           Text(<<"e'">>), Text(<<"[", "a", "]">>)}, MaxPatToks)
    \X Texts(SubjectAlphabet, MaxSubLen)

InitRepresentation ==
  \E in \in RepresentationInputs :
    /\ engine = "Match(string)"
    /\ fold = FALSE
    /\ pattern = Utf8(in[1])
    /\ s = Utf8(in[2])
    /\ earlier = NoCall
    /\ class = NotParsed
    /\ NoMultiple
    /\ pc = "call"
    /\ pIdx = 0 /\ sIdx = 0
    /\ starIdx = -1 /\ sTmpIdx = -1
    /\ questionIdx = -1 /\ qTmpIdx = -1
    /\ qCount = 0 /\ qMatched = 0
    /\ hasStarLiteral = FALSE /\ starLiteral = <<>>
    /\ result = FALSE /\ err = FALSE

SpecRepresentation == InitRepresentation /\ [][NextRepresentation]_vars

(***************************************************************************)
(* The dispatchers Match and MatchFold of wildcard.go, with their fast     *)
(* paths, and the recursive matchers they fall back to.                    *)
(***************************************************************************)
\* unicode.ToLower on the codepoints of the model.
ToLowerRune(r) ==
  IF r >= 65 /\ r <= 90 THEN r + 32
  ELSE IF r = 201 THEN 233
  ELSE IF r = 8490 THEN 107
  ELSE r

\* toLowerRunes: the slice it is given, lowered element by element.
toLowerRunes(r) == [i \in DOMAIN r |-> ToLowerRune(r[i])]

\* strings.ToLower / bytes.ToLower: a new value.
ToLower(b) == Utf8(toLowerRunes(Runes(b)))

\* strings.EqualFold / bytes.EqualFold.
EqualFold(a, b) ==
  /\ Len(Runes(a)) = Len(Runes(b))
  /\ \A i \in DOMAIN Runes(a) : equalFoldRune(Runes(a)[i], Runes(b)[i])

\* strings.ContainsAny(b, "*?.") / the ContainsFunc of the []rune case.
ContainsStarQuestionDot(b) ==
  \E i \in 1..Len(b) : b[i] \in {wildcardStar, wildcardQuestion, wildcardDot}

\* The body of matchCharClass from pi on; a pattern that ends inside the
\* class is accepted.
RECURSIVE matchCharClassBody(_, _, _, _, _)
matchCharClassBody(p, char, pi, matched, firstChar) ==
  LET bad == [ok |-> FALSE, pi |-> pi, matched |-> FALSE]
      i1  == IF At(p, pi) = wildcardEscape THEN pi + 1 ELSE pi
      c1  == At(p, i1)
      j   == i1 + 1
      k   == j + 1
      i2  == IF At(p, k) = wildcardEscape THEN k + 1 ELSE k
      c2  == At(p, i2)
  IN  IF pi >= Len(p) THEN [ok |-> TRUE, pi |-> pi, matched |-> matched]
      ELSE IF At(p, pi) = closeBracket /\ ~firstChar
        THEN [ok |-> TRUE, pi |-> pi + 1, matched |-> matched]
      ELSE IF At(p, pi) = wildcardEscape /\ pi + 1 >= Len(p) THEN bad
      ELSE IF j + 1 < Len(p) /\ At(p, j) = rangeDash
              /\ At(p, j + 1) # closeBracket
        THEN IF i2 >= Len(p) THEN bad
             ELSE matchCharClassBody(p, char, i2 + 1,
                                     matched \/ (char >= c1 /\ char <= c2),
                                     FALSE)
      ELSE matchCharClassBody(p, char, j, matched \/ char = c1, FALSE)

\* matchCharClass: whether char is in the class at pi, and the position
\* after the class.
matchCharClass(p, char, pi) ==
  LET bad     == [ok |-> FALSE, pi |-> pi, matched |-> FALSE]
      negated == At(p, pi + 1) \in {negCaret, negBang}
      start   == IF negated THEN pi + 2 ELSE pi + 1
      body    == matchCharClassBody(p, char, start, FALSE, TRUE)
  IN  IF pi >= Len(p) \/ At(p, pi) # wildcardBracket THEN bad
      ELSE IF pi + 1 >= Len(p) THEN bad
      ELSE IF start >= Len(p) THEN bad
      ELSE IF ~body.ok THEN body
      ELSE [body EXCEPT !.matched = (body.matched # negated)]

\* matchRecursive, on bytes; its star loop tries the rest of the pattern at
\* every si up to slen and stops at the first error or match.
RECURSIVE matchRecursive(_, _, _, _)
RECURSIVE matchRecursiveStar(_, _, _, _)
matchRecursiveStar(p, subj, pi, si) ==
  IF si > Len(subj) THEN Returns(FALSE, FALSE)
  ELSE LET r == matchRecursive(p, subj, pi, si)
       IN  IF r.err THEN Returns(FALSE, TRUE)
           ELSE IF r.result THEN Returns(TRUE, FALSE)
           ELSE matchRecursiveStar(p, subj, pi, si + 1)

matchRecursive(p, subj, pi, si) ==
  LET plen == Len(p)
      slen == Len(subj)
      pc0  == At(p, pi)
      zero == matchRecursive(p, subj, pi + 1, si)
      cls  == matchCharClass(p, At(subj, si), pi)
      lit  == IF pc0 = wildcardEscape THEN At(p, pi + 1) ELSE pc0
      next == IF pc0 = wildcardEscape THEN pi + 2 ELSE pi + 1
  IN  IF pi >= plen THEN Returns(si = slen, FALSE)
      ELSE IF pc0 = wildcardStar
        THEN IF SkipStar(p, pi) >= plen THEN Returns(TRUE, FALSE)
             ELSE matchRecursiveStar(p, subj, SkipStar(p, pi), si)
      ELSE IF pc0 = wildcardQuestion
        THEN IF pi + 1 < plen /\ At(p, pi + 1) = wildcardDot
               THEN IF si < slen
                      THEN matchRecursive(p, subj, pi + 1, si + 1)
                      ELSE Returns(FALSE, FALSE)
             ELSE IF zero.err THEN Returns(FALSE, TRUE)
             ELSE IF zero.result THEN Returns(TRUE, FALSE)
             ELSE IF si < slen THEN matchRecursive(p, subj, pi + 1, si + 1)
             ELSE Returns(FALSE, FALSE)
      ELSE IF pc0 = wildcardDot
        THEN IF si >= slen THEN Returns(FALSE, FALSE)
             ELSE matchRecursive(p, subj, pi + 1, si + 1)
      ELSE IF pc0 = wildcardBracket
        THEN IF si >= slen THEN Returns(FALSE, FALSE)
             ELSE IF ~cls.ok THEN Returns(FALSE, TRUE)
             ELSE IF ~cls.matched THEN Returns(FALSE, FALSE)
             ELSE matchRecursive(p, subj, cls.pi, si + 1)
      ELSE IF pc0 = wildcardEscape /\ pi + 1 >= plen THEN Returns(FALSE, TRUE)
      ELSE IF si >= slen \/ At(subj, si) # lit THEN Returns(FALSE, FALSE)
      ELSE matchRecursive(p, subj, next, si + 1)

\* matchRecursiveRunes of wildcard.go, on codepoints: no class and no
\* escape; a `?` before `.` or `*` tries one codepoint before none.
RECURSIVE wildcard_matchRecursiveRunes(_, _, _, _)
RECURSIVE wildcard_matchRunesStar(_, _, _, _)
wildcard_matchRunesStar(p, subj, pi, si) ==
  IF si > Len(subj) THEN Returns(FALSE, FALSE)
  ELSE LET r == wildcard_matchRecursiveRunes(p, subj, pi, si)
       IN  IF r.err THEN Returns(FALSE, TRUE)
           ELSE IF r.result THEN Returns(TRUE, FALSE)
           ELSE wildcard_matchRunesStar(p, subj, pi, si + 1)

wildcard_matchRecursiveRunes(p, subj, pi, si) ==
  LET plen == Len(p)
      slen == Len(subj)
      pc0  == At(p, pi)
      zero == wildcard_matchRecursiveRunes(p, subj, pi + 1, si)
      one  == wildcard_matchRecursiveRunes(p, subj, pi + 1, si + 1)
  IN  IF pi >= plen THEN Returns(si = slen, FALSE)
      ELSE IF pc0 = wildcardStar
        THEN IF SkipStar(p, pi) >= plen THEN Returns(TRUE, FALSE)
             ELSE wildcard_matchRunesStar(p, subj, SkipStar(p, pi), si)
      ELSE IF pc0 = wildcardQuestion
        THEN IF pi + 1 < plen
                /\ At(p, pi + 1) \in {wildcardDot, wildcardStar}
               THEN IF si < slen /\ one.err THEN Returns(FALSE, TRUE)
                    ELSE IF si < slen /\ one.result THEN Returns(TRUE, FALSE)
                    ELSE zero
             ELSE IF zero.err THEN Returns(FALSE, TRUE)
             ELSE IF zero.result THEN Returns(TRUE, FALSE)
             ELSE IF si < slen THEN one
             ELSE Returns(FALSE, FALSE)
      ELSE IF pc0 = wildcardDot
        THEN IF si >= slen THEN Returns(FALSE, FALSE) ELSE one
      ELSE IF si >= slen \/ At(subj, si) # pc0 THEN Returns(FALSE, FALSE)
      ELSE one

\* isExactMatch: equal lengths, no wildcard in the pattern, equal values.
isExactMatch(p, subj) ==
  Len(p) = Len(subj) /\ ~ContainsWildcard(p) /\ p = subj

\* fastPatternMatchString / fastPatternMatchBytes of wildcard.go:
\* <<matched, handled>> for prefix*, *suffix and prefix*suffix.
wildcard_fastPatternMatchString(p, subj) ==
  LET n      == Len(p)
      first  == Index(p, <<wildcardStar>>)
      allBut == Slice(p, 0, n - 1)
      rest   == Slice(p, 1, n)
      before == Slice(p, 0, first)
      after  == Slice(p, first + 1, n)
  IN  IF n >= 1 /\ At(p, n - 1) = wildcardStar /\ ~ContainsWildcard(allBut)
        THEN <<HasPrefix(subj, allBut), TRUE>>
      ELSE IF n >= 1 /\ At(p, 0) = wildcardStar /\ ~ContainsWildcard(rest)
        THEN <<HasSuffix(subj, rest), TRUE>>
      ELSE IF first # -1 /\ before # <<>> /\ after # <<>>
              /\ ~ContainsWildcard(before) /\ ~ContainsWildcard(after)
        THEN << /\ Len(subj) >= Len(before) + Len(after)
                /\ HasPrefix(subj, before)
                /\ HasSuffix(subj, after), TRUE>>
      ELSE <<FALSE, FALSE>>

\* matchGenericRecursive: the full matcher of a representation.
matchGenericRecursive(representation, p, subj) ==
  IF representation = "[]rune"
    THEN wildcard_matchRecursiveRunes(p, subj, 0, 0)
    ELSE matchRecursive(p, subj, 0, 0)

\* Match of wildcard.go: the fast paths, then the full matcher.
wildcard_Match(representation, p, subj) ==
  LET fast == IF representation = "[]rune" THEN <<FALSE, FALSE>>
              ELSE wildcard_fastPatternMatchString(p, subj)
  IN  IF Len(p) = 0 THEN Returns(Len(subj) = 0, FALSE)
      ELSE IF p = <<wildcardStar>> THEN Returns(TRUE, FALSE)
      ELSE IF isExactMatch(p, subj) THEN Returns(TRUE, FALSE)
      ELSE IF fast[2] THEN Returns(fast[1], FALSE)
      ELSE matchGenericRecursive(representation, p, subj)

\* The lowered arguments MatchFold hands on.
Lowered(representation, b) ==
  IF representation = "[]rune" THEN toLowerRunes(b) ELSE ToLower(b)

\* MatchFold of wildcard.go: equality up to case when the pattern holds
\* none of `*`, `?`, `.`, else Match on the lowered arguments.
MatchFold(representation, p, subj) ==
  IF ~ContainsStarQuestionDot(p)
    THEN IF representation = "[]rune"
           THEN Returns(/\ Len(p) = Len(subj)
                        /\ \A i \in DOMAIN p :
                             ToLowerRune(p[i]) = ToLowerRune(subj[i]), FALSE)
           ELSE Returns(EqualFold(p, subj), FALSE)
    ELSE wildcard_Match(representation, Lowered(representation, p),
                        Lowered(representation, subj))

\* The dispatchers and the representations they are called on.
DispatcherCalls ==
  { [dispatcher |-> d, representation |-> r] :
      d \in {"MatchFold", "wildcard.Match", "Match"},
      r \in {"string", "[]byte", "[]rune"} }

\* What the dispatcher named by engine returns.
Dispatch(call, p, subj) ==
  IF call.dispatcher = "MatchFold"
    THEN MatchFold(call.representation, p, subj)
  ELSE IF call.dispatcher = "wildcard.Match"
    THEN wildcard_Match(call.representation, p, subj)
  ELSE Match(call.representation, p, subj)

\* What the full matcher behind the dispatcher returns for the same
\* arguments.
FullMatcher(call, p, subj) ==
  IF call.dispatcher = "MatchFold"
    THEN matchGenericRecursive(call.representation,
                               Lowered(call.representation, p),
                               Lowered(call.representation, subj))
  ELSE IF call.dispatcher = "wildcard.Match"
    THEN matchGenericRecursive(call.representation, p, subj)
  ELSE IF call.representation = "[]rune"
    THEN matchRecursiveRunes(p, subj, 0, 0)
  ELSE iterativeMatch(p, subj)

\* The caller's slice after the call: MatchFold hands its []rune arguments
\* to toLowerRunes, which writes into them; strings are immutable and
\* bytes.ToLower returns a copy.
AfterCall(call, p, b) ==
  IF call.dispatcher = "MatchFold" /\ call.representation = "[]rune"
     /\ ContainsStarQuestionDot(p)
    THEN toLowerRunes(b) ELSE b

\* The call of a dispatcher.
DispatcherCall ==
  /\ pc = "call"
  /\ LET r == Dispatch(engine, pattern, s)
     IN  Return(r.result, r.err)
  /\ pattern' = AfterCall(engine, pattern, pattern)
  /\ s' = AfterCall(engine, pattern, s)
  /\ UNCHANGED <<engine, fold, earlier, class, multiVars, pIdx, sIdx,
                 starVars, questionVars>>

\* After the dispatcher has returned, the full matcher on the same
\* arguments.
FullMatcherCall ==
  /\ pc = "done"
  /\ ~earlier.made
  /\ earlier' = [made |-> TRUE, relation |-> "full", engine |-> engine,
                 fold |-> fold, pattern |-> pattern, s |-> s,
                 result |-> result, err |-> err]
  /\ LET r == FullMatcher(engine, pattern, s)
     IN  Return(r.result, r.err)
  /\ UNCHANGED <<engine, fold, pattern, s, class, multiVars, pIdx, sIdx,
                 starVars, questionVars>>

NextDispatch == DispatcherCall \/ FullMatcherCall

\* Patterns that take each fast path and patterns that take none, in both
\* cases of a letter.
DispatchTokens ==
  { Text(<<"*">>), Text(<<"?">>), Text(<<"a">>), Text(<<"A">>),
    Text(<<"b">>), Text(<<"[", "a", "]">>), Text(<<"\\">>) }

DispatchInputs ==
  Concats(DispatchTokens, MaxPatToks)
    \X Texts({Ord["a"], Ord["A"], Ord["b"]}, MaxSubLen)

InitDispatch ==
  \E call \in DispatcherCalls, in \in DispatchInputs :
    /\ engine = call
    /\ fold = (call.dispatcher = "MatchFold")
    /\ pattern = IF call.representation = "[]rune" THEN in[1] ELSE Utf8(in[1])
    /\ s = IF call.representation = "[]rune" THEN in[2] ELSE Utf8(in[2])
    /\ earlier = NoCall
    /\ class = NotParsed
    /\ NoMultiple
    /\ pc = "call"
    /\ pIdx = 0 /\ sIdx = 0
    /\ starIdx = -1 /\ sTmpIdx = -1
    /\ questionIdx = -1 /\ qTmpIdx = -1
    /\ qCount = 0 /\ qMatched = 0
    /\ hasStarLiteral = FALSE /\ starLiteral = <<>>
    /\ result = FALSE /\ err = FALSE

SpecDispatch == InitDispatch /\ [][NextDispatch]_vars

(***************************************************************************)
(* MatchMultiple and MatchFoldMultiple: one goroutine per pattern, a       *)
(* results slice, an error channel of capacity one and a WaitGroup.        *)
(* Element g of patterns, results and goroutines is Go's index g-1.  The   *)
(* loop of the matcher works on locals of its own call only, so the calls  *)
(* of the goroutines take the matcher's variables one at a time, while the *)
(* steps on results, errChan and wg interleave freely.                     *)
(***************************************************************************)
MaxPatterns == 2

Goroutines == DOMAIN goroutines

\* The goroutines the loop of main has not started yet.
Unborn == {g \in Goroutines : goroutines[g].pc = "unborn"}

\* What a step of MatchMultiple outside the matcher leaves alone.
matcherVars ==
  <<engine, fold, pattern, s, earlier, class, pc, pIdx, sIdx, starVars,
    questionVars, retVars>>

\* for i, p := range patterns { wg.Add(1); go func(i int, p S) {...}(i, p) }
Spawn ==
  /\ mainPc = "spawn"
  /\ \E g \in Unborn :
       /\ \A h \in Unborn : g <= h
       /\ wg' = wg + 1
       /\ goroutines' = [goroutines EXCEPT ![g].pc = "start",
                                           ![g].p = patterns[g]]
  /\ UNCHANGED <<matcherVars, patterns, results, errChan, mainPc, returned>>

\* match, err := Match(p, s), entered.
GoCall ==
  /\ pc = "idle"
  /\ \E g \in Goroutines :
       /\ goroutines[g].pc = "start"
       /\ goroutines' = [goroutines EXCEPT ![g].pc = "matching"]
       /\ pattern' = goroutines[g].p
  /\ pc' = "loop"
  /\ pIdx' = 0 /\ sIdx' = 0
  /\ starIdx' = -1 /\ sTmpIdx' = -1
  /\ questionIdx' = -1 /\ qTmpIdx' = -1
  /\ qCount' = 0 /\ qMatched' = 0
  /\ hasStarLiteral' = FALSE /\ starLiteral' = <<>>
  /\ result' = FALSE /\ err' = FALSE
  /\ UNCHANGED <<engine, fold, s, earlier, class, patterns, results, errChan,
                 wg, mainPc, returned>>

\* match, err := Match(p, s), returned, and the test err != nil.
GoReturn ==
  /\ pc = "done"
  /\ \E g \in Goroutines :
       /\ goroutines[g].pc = "matching"
       /\ goroutines' = [goroutines EXCEPT
            ![g].pc = IF err THEN "failed" ELSE "matched",
            ![g].match = result,
            ![g].err = err]
  /\ pc' = "idle"
  /\ UNCHANGED <<engine, fold, pattern, s, earlier, class, pIdx, sIdx,
                 starVars, questionVars, retVars, patterns, results, errChan,
                 wg, mainPc, returned>>

\* The error value of goroutine g in flight; every error of the matcher is
\* the one value ErrBadPattern, and `from` tells the sends apart.
ErrOf(g) == [err |-> "ErrBadPattern", from |-> g]

GoSendErr_Overwrite ==
  /\ \E g \in Goroutines :
       /\ goroutines[g].pc = "failed"
       /\ goroutines' = [goroutines EXCEPT ![g].pc = "deferred"]
       /\ errChan' = [errChan EXCEPT !.buf = <<ErrOf(g)>>]
  /\ UNCHANGED <<matcherVars, patterns, results, wg, mainPc, returned>>

GoSendErr_Blocking ==
  /\ \E g \in Goroutines :
       /\ goroutines[g].pc = "failed"
       /\ Len(errChan.buf) < errChanCap
       /\ goroutines' = [goroutines EXCEPT ![g].pc = "deferred"]
       /\ errChan' = [errChan EXCEPT !.buf = Append(@, ErrOf(g))]
  /\ UNCHANGED <<matcherVars, patterns, results, wg, mainPc, returned>>

\* select { case errChan <- err: default: }; return.  A send on a closed
\* channel panics.
GoSendErr ==
  /\ \E g \in Goroutines :
       /\ goroutines[g].pc = "failed"
       /\ goroutines' = [goroutines EXCEPT ![g].pc = "deferred"]
       /\ IF errChan.closed
            THEN mainPc' = "panic" /\ UNCHANGED errChan
            ELSE /\ errChan' = IF Len(errChan.buf) < errChanCap
                                 THEN [errChan EXCEPT !.buf = Append(@, ErrOf(g))]
                                 ELSE errChan
                 /\ UNCHANGED mainPc
  /\ UNCHANGED <<matcherVars, patterns, results, wg, returned>>

GoStore_First ==
  /\ \E g \in Goroutines :
       /\ goroutines[g].pc = "matched"
       /\ results' = [results EXCEPT ![1] = goroutines[g].match]
       /\ goroutines' = [goroutines EXCEPT ![g].pc = "deferred"]
  /\ UNCHANGED <<matcherVars, patterns, errChan, wg, mainPc, returned>>

\* results[i] = match
GoStore ==
  /\ \E g \in Goroutines :
       /\ goroutines[g].pc = "matched"
       /\ results' = [results EXCEPT ![g] = goroutines[g].match]
       /\ goroutines' = [goroutines EXCEPT ![g].pc = "deferred"]
  /\ UNCHANGED <<matcherVars, patterns, errChan, wg, mainPc, returned>>

\* defer wg.Done()
GoDone ==
  /\ \E g \in Goroutines :
       /\ goroutines[g].pc = "deferred"
       /\ goroutines' = [goroutines EXCEPT ![g].pc = "exited"]
  /\ wg' = wg - 1
  /\ UNCHANGED <<matcherVars, patterns, results, errChan, mainPc, returned>>

\* wg.Wait(), after the loop that starts the goroutines.
Wait ==
  /\ mainPc = "spawn"
  /\ Unborn = {}
  /\ wg = 0
  /\ mainPc' = "close"
  /\ UNCHANGED <<matcherVars, patterns, results, errChan, wg, goroutines,
                 returned>>

\* close(errChan)
Close ==
  /\ mainPc = "close"
  /\ errChan' = [errChan EXCEPT !.closed = TRUE]
  /\ mainPc' = "receive"
  /\ UNCHANGED <<matcherVars, patterns, results, wg, goroutines, returned>>

\* if err, ok := <-errChan; ok { return nil, err }; return results, nil
Receive ==
  /\ mainPc = "receive"
  /\ IF errChan.buf # <<>>
       THEN /\ errChan' = [errChan EXCEPT !.buf = Tail(@)]
            /\ returned' = [results |-> <<>>, isNil |-> TRUE, err |-> TRUE,
                            from |-> Head(errChan.buf).from]
       ELSE /\ errChan.closed
            /\ returned' = [results |-> results, isNil |-> FALSE,
                            err |-> FALSE, from |-> 0]
            /\ UNCHANGED errChan
  /\ mainPc' = "returned"
  /\ UNCHANGED <<matcherVars, patterns, results, wg, goroutines>>

NextMultiple ==
  \/ Next
  \/ Spawn
  \/ GoCall
  \/ GoReturn
  \/ GoSendErr
  \/ GoStore
  \/ GoDone
  \/ Wait
  \/ Close
  \/ Receive

\* MatchMultiple calls Match, MatchFoldMultiple calls MatchFold.
MultipleCalls ==
  { [engine |-> "MatchInternal", fold |-> FALSE],
    [engine |-> "MatchInternalFold", fold |-> TRUE] }

\* Patterns that match, that do not, and that are malformed, between them
\* taking every branch of the loop.
MultiplePatterns ==
  { Text(<<"*", "a", "?">>), Text(<<"\\", "a", ".">>),
    Text(<<"[", "a", "]", "b">>), Text(<<"[", "z", "-", "a", "]">>),
    Text(<<"A", "?">>) }

MultipleSubjects ==
  { Text(<<>>), Text(<<"a", "b">>), Text(<<"x", "a", "b">>) }

\* The lists of at most n members of a set.
RECURSIVE Lists(_, _)
Lists(set, n) ==
  IF n = 0 THEN {<<>>}
  ELSE LET prev == Lists(set, n - 1)
       IN  prev \cup {Append(l, x) : l \in prev, x \in set}

\* results := make([]bool, len(patterns)); errChan := make(chan error, 1);
\* var wg sync.WaitGroup
InitMultiple ==
  \E c \in MultipleCalls, ps \in Lists(MultiplePatterns, MaxPatterns),
     subj \in MultipleSubjects :
    /\ engine = c.engine
    /\ fold = c.fold
    /\ s = Utf8(subj)
    /\ patterns = [g \in DOMAIN ps |-> Utf8(ps[g])]
    /\ results = [g \in DOMAIN ps |-> FALSE]
    /\ errChan = [buf |-> <<>>, closed |-> FALSE]
    /\ wg = 0
    /\ goroutines = [g \in DOMAIN ps |->
                       [pc |-> "unborn", p |-> <<>>, match |-> FALSE,
                        err |-> FALSE]]
    /\ mainPc = "spawn"
    /\ returned = [results |-> <<>>, isNil |-> TRUE, err |-> FALSE, from |-> 0]
    /\ earlier = NoCall
    /\ class = NotParsed
    /\ pattern = <<>>
    /\ pc = "idle"
    /\ pIdx = 0 /\ sIdx = 0
    /\ starIdx = -1 /\ sTmpIdx = -1
    /\ questionIdx = -1 /\ qTmpIdx = -1
    /\ qCount = 0 /\ qMatched = 0
    /\ hasStarLiteral = FALSE /\ starLiteral = <<>>
    /\ result = FALSE /\ err = FALSE

SpecMultiple == InitMultiple /\ [][NextMultiple]_vars

\* The Go scheduler runs every goroutine that can take a step.
SpecMultipleFair ==
  InitMultiple /\ [][NextMultiple]_vars /\ WF_vars(NextMultiple)

(***************************************************************************)
(* Claims.                                                                 *)
(***************************************************************************)
\* C1: completeness. For either fold setting of the UTF-8 matcher, whenever
\* some choice of expansions spells the pattern onto the whole subject under
\* the documented token meanings, the matcher returns true without an error.
C1_Completeness ==
  Returned /\ engine = "MatchInternalFold" /\ SpellsSubject => result /\ ~err

\* C2: soundness. Whenever the UTF-8 matcher returns true, the pattern can
\* be spelled onto the whole subject with every token accounting for whole
\* codepoints of the subject.
C2_Soundness ==
  Returned /\ engine = "MatchInternalFold" /\ result => SpellsSubject

\* C3: a pattern that contains a malformed bracket expression always makes
\* the matcher return the malformed-pattern error, whatever the subject.
C3_MalformedReported == Returned /\ Malformed => err

\* The inputs of the call as texts.
PatternIs(names) == pattern = Utf8(Text(names))
SubjectIs(names) == s = Utf8(Text(names))

QuestionRun ==
  pLen >= 1 /\ \A i \in 0..(pLen - 1) : At(pattern, i) = wildcardQuestion

\* The number of units a `?` consumes one of: codepoints for the UTF-8
\* engine, bytes for the byte engine.
UnitsOfSubject ==
  IF engine = "MatchInternal" THEN sLen ELSE Len(Runes(s))

C6_DotRejectsWhitespace ==
  Returned /\ PatternIs(<<".">>) =>
    /\ (\E w \in {" ", "\t", "\r", "\n"} : SubjectIs(<<w>>)) => ~result
    /\ SubjectIs(<<"a">>) => result

\* Membership of a codepoint in a parsed class, compared exactly.
ExactMember(cc, ch) ==
  LET in == \/ ch \in cc.Chars
            \/ \E rg \in cc.Ranges : rg[1] <= ch /\ ch <= rg[2]
  IN  in # cc.Negated

\* The pattern is exactly one well-formed bracket expression and the subject
\* exactly one codepoint.
OneClassOneRune ==
  /\ Len(Runes(s)) = 1
  /\ pLen >= 1 /\ At(pattern, 0) = wildcardBracket
  /\ ClassAt(Runes(pattern), 0).ok
  /\ ClassAt(Runes(pattern), 0).pi = Len(Runes(pattern))

\* C7: bracket classes compare characters exactly even when fold matching is
\* on, while literals fold: matchFold("[a-z]bc", "Abc") is false,
\* matchFold("ABC", "abc") is true, and the verdict of a class on a character
\* is its exact membership whatever the fold flag.
C7_ClassesExactUnderFold ==
  Returned /\ engine = "MatchInternalFold" =>
    /\ fold /\ PatternIs(<<"[", "a", "-", "z", "]", "b", "c">>)
         /\ SubjectIs(<<"A", "b", "c">>) => ~result /\ ~err
    /\ fold /\ PatternIs(<<"A", "B", "C">>) /\ SubjectIs(<<"a", "b", "c">>)
         => result /\ ~err
    /\ OneClassOneRune =>
         /\ ~err
         /\ result = ExactMember(ClassAt(Runes(pattern), 0).cc, Runes(s)[1])

C7_Witness ==
  /\ Returned /\ fold /\ PatternIs(<<"[", "k", "]">>) /\ SubjectIs(<<"K">>)
  /\ ~result /\ ~err

\* The pattern is one escape `\x` of a codepoint x and nothing else.
OneEscape ==
  /\ Len(Runes(pattern)) = 2
  /\ Runes(pattern)[1] = wildcardEscape

\* C8: an escape `\x` matches exactly the one character x (up to case under
\* fold) with no wildcard meaning, for every x including multi-byte
\* codepoints; `a\*b` matches "a*b" and does not match "axb".
C8_EscapeMatchesItsCharacter ==
  Returned =>
    /\ OneEscape =>
         (result <=> /\ Len(Runes(s)) = 1
                     /\ RunesEqual(fold, Runes(pattern)[2], Runes(s)[1]))
    /\ PatternIs(<<"a", "\\", "*", "b">>) /\ SubjectIs(<<"a", "*", "b">>)
         => result
    /\ PatternIs(<<"a", "\\", "*", "b">>) /\ SubjectIs(<<"a", "x", "b">>)
         => ~result

\* C9: the pattern `*` matches every subject, with no error, including the
\* empty subject and subjects of multi-byte codepoints.
C9_StarMatchesAll == Returned /\ PatternIs(<<"*">>) => result /\ ~err

C9_Witness ==
  /\ Returned /\ PatternIs(<<"*">>) /\ SubjectIs(<<"e'", "a">>) /\ result
  /\ sTmpIdx = sLen

\* No byte of the pattern is one of * ? . [ \
NoWildcardByte == \A i \in 0..(pLen - 1) : ~IsWildcardByte(At(pattern, i))

\* C10: for a pattern with none of * ? . [ \ the case-sensitive match is true
\* exactly when pattern and subject are the same text, without an error.
C10_LiteralRoundTrip ==
  Returned /\ ~fold /\ NoWildcardByte => ~err /\ (result <=> pattern = s)

C10_Witness ==
  /\ Returned /\ ~fold /\ NoWildcardByte /\ pLen >= 2
  /\ pattern = s /\ result /\ Len(Runes(s)) < sLen

\* C11: collapsing repeated stars does not change the outcome: the call on
\* the pattern with every run of unescaped `*` replaced by one `*` returns
\* the same result and the same error as the call on the pattern itself;
\* in particular "a**b" and "a*b" agree on every subject.
C11_StarRunsCollapse ==
  BothReturned("collapsed") =>
    /\ pattern = CollapseStars(earlier.pattern, 0)
    /\ result = earlier.result
    /\ err = earlier.err

C11_Witness ==
  /\ BothReturned("collapsed")
  /\ earlier.pattern = Utf8(Text(<<"a", "*", "*", "b">>))
  /\ PatternIs(<<"a", "*", "b">>) /\ SubjectIs(<<"a", "x", "b">>)
  /\ result /\ earlier.result

\* C12: an error is never caused by the subject: when every bracket
\* expression of the pattern is well formed the matcher returns no error on
\* any subject, and a mismatch is the result false with no error.
C12_NoErrorFromSubject == Returned /\ ~Malformed => ~err

C12_Witness ==
  /\ Returned /\ PatternIs(<<"[", "!", "a", "b", "c", "]">>)
  /\ SubjectIs(<<"a">>) /\ ~Malformed /\ ~result /\ ~err

\* The pattern is literal text followed by one backslash, its last byte.
LiteralThenEscape ==
  /\ pLen >= 1
  /\ At(pattern, pLen - 1) = wildcardEscape
  /\ \A i \in 0..(pLen - 2) : ~IsWildcardByte(At(pattern, i))

\* Two texts are the same, up to case when f.
SameText(f, a, b) ==
  Len(a) = Len(b) /\ \A i \in 1..Len(a) : RunesEqual(f, a[i], b[i])

C14_Terminates ==
  /\ <>Returned
  /\ [][pc = "backtrack" /\ ~CanReplayQuestion /\ CanReplayStar /\ pc' = "loop"
          => sTmpIdx' > sTmpIdx /\ sTmpIdx' <= sLen]_vars
  /\ [][pc = "backtrack" /\ CanReplayQuestion
          => qMatched' = qMatched + 1 /\ qMatched' <= qCount]_vars
  /\ [](qMatched <= qCount)

C14_Witness ==
  /\ Returned /\ PatternIs(<<"*", "a", "?">>) /\ SubjectIs(<<"x", "a", "b">>)
  /\ result /\ sTmpIdx = 1 /\ qMatched = 1

\* C15: representation invariance. For the same valid UTF-8 text, Match
\* returns the same result and the same error-or-no-error whether pattern
\* and subject are passed as string, as []byte or as []rune.
C15_RepresentationInvariance ==
  BothReturned("representation") =>
    /\ result = earlier.result
    /\ err = earlier.err

\* A direct call of the class parser has returned.
Parsed == pc = "parsed"

\* The bytes of the well-formed classes.
WellFormedBytes == { Utf8(c) : c \in WellFormedClasses }

\* The text from the call's position on starts with a well-formed class:
\* every other input of the call has no `[` at the position, or ends before
\* the closing `]` or on a backslash, or holds the range z-a.
OnWellFormedClass ==
  \E end \in pIdx..pLen : Slice(pattern, pIdx, end) \in WellFormedBytes

\* C16: the class parser fails with the bad-pattern error when the cursor
\* is not on `[`, when the pattern ends before a closing `]` (as in `[`,
\* `[]`, `[!abc`), when a range has its start above its end (`[z-a]`) and
\* when a backslash inside the brackets is the last character of the
\* pattern; on every other bracket expression it succeeds.
C16_ParserVerdict ==
  Parsed =>
    /\ class.ok <=> OnWellFormedClass
    /\ (\E bad \in {<<"[">>, <<"[", "]">>, <<"[", "!", "a">>,
                    <<"[", "z", "-", "a", "]">>, <<"[", "\\">>,
                    <<"[", "a", "-", "\\">>} : PatternIs(bad)) => ~class.ok

C16_Witness ==
  /\ Parsed /\ PatternIs(<<"[", "^", "]", "a", "-", "z", "-", "]">>)
  /\ pIdx = 0 /\ class.ok /\ class.cc.Negated
  /\ class.cc.Ranges = {<<97, 122>>}

\* The position of the first body character of the class a parser call was
\* made on: after the `[` and the negation marker, if there is one.
BodyStart ==
  IF pIdx + 1 < pLen /\ At(pattern, pIdx + 1) \in {negCaret, negBang}
    THEN pIdx + 2 ELSE pIdx + 1

\* A rune is among the members or in a range of a parsed class.
Listed(cc, r) ==
  r \in cc.Chars \/ \E rg \in cc.Ranges : rg[1] <= r /\ r <= rg[2]

\* C17: a `]` directly after `[` or directly after the negation marker is a
\* member of the class and not its terminator; only a later `]` closes the
\* class. So `[]]` matches exactly the subject `]`, and `[^]]` exactly the
\* one-character subjects other than `]`.
C17_BracketFirstIsMember ==
  /\ Parsed /\ class.ok /\ At(pattern, BodyStart) = closeBracket =>
       /\ Listed(class.cc, closeBracket)
       /\ class.pi > BodyStart + 1
       /\ At(pattern, class.pi - 1) = closeBracket
  /\ Returned /\ PatternIs(<<"[", "]", "]">>) =>
       ~err /\ (result <=> SubjectIs(<<"]">>))
  /\ Returned /\ PatternIs(<<"[", "^", "]", "]">>) =>
       ~err /\ (result <=> sLen = 1 /\ ~SubjectIs(<<"]">>))

C17_Witness ==
  /\ Returned /\ PatternIs(<<"[", "]", "]">>) /\ SubjectIs(<<"]">>)
  /\ result /\ pIdx = 3

\* The pattern holds the text sub from byte i on.
HoldsAt(i, sub) == i + Len(sub) <= pLen /\ Slice(pattern, i, i + Len(sub)) = sub

\* The subject is one of the one-character texts named.
SubjectAmong(names) == \E n \in names : SubjectIs(<<n>>)

\* C18: inside a bracket expression a member followed by `-` and a
\* character other than `]` forms a range, while a `-` that is the first
\* body character or stands immediately before the closing `]` is a literal
\* member: `[-az]` and `[a-]` both contain `-` and neither contains `b`,
\* while `[a-z]` is the range from a to z.
C18_RangesAndDashes ==
  /\ Parsed /\ class.ok =>
       /\ At(pattern, BodyStart) = rangeDash => Listed(class.cc, rangeDash)
       /\ At(pattern, class.pi - 2) = rangeDash /\ class.pi - 2 > BodyStart
            => rangeDash \in class.cc.Chars
       /\ \A i \in BodyStart..(pLen - 1) :
            HoldsAt(i, Text(<<"a", "-", "z">>))
              => <<Ord["a"], Ord["z"]>> \in class.cc.Ranges
       /\ PatternIs(<<"[", "-", "a", "z", "]">>) =>
            /\ class.cc.Chars = {Ord["-"], Ord["a"], Ord["z"]}
            /\ class.cc.Ranges = {}
       /\ PatternIs(<<"[", "a", "-", "]">>) =>
            /\ class.cc.Chars = {Ord["a"], Ord["-"]}
            /\ class.cc.Ranges = {}
  /\ Returned /\ PatternIs(<<"[", "-", "a", "z", "]">>) =>
       ~err /\ (result <=> SubjectAmong({"-", "a", "z"}))
  /\ Returned /\ PatternIs(<<"[", "a", "-", "]">>) =>
       ~err /\ (result <=> SubjectAmong({"a", "-"}))
  /\ Returned /\ PatternIs(<<"[", "-", "a", "]">>) =>
       ~err /\ (result <=> SubjectAmong({"a", "-"}))
  /\ Returned /\ PatternIs(<<"[", "a", "-", "z", "]">>) =>
       ~err /\ (result <=> SubjectAmong({"a", "b", "z"}))

C18_Witness ==
  /\ Returned /\ PatternIs(<<"[", "a", "-", "]">>) /\ SubjectIs(<<"-">>)
  /\ result /\ pIdx = 4

\* C19: on success the class parser returns the position immediately after
\* the `]` that closes the expression it was asked to parse: the text
\* between the call's position and the returned one is that expression, so
\* for a pattern that is exactly one bracket expression the pattern length
\* is returned. Text after the class is ordinary pattern: `[a]]` is the
\* class `[a]` followed by a literal `]` and matches `a]` but neither `a`
\* nor `]`.
C19_PositionAfterClass ==
  /\ Parsed /\ class.ok =>
       /\ Slice(pattern, pIdx, class.pi) \in WellFormedBytes
       /\ pIdx = 0 /\ pattern \in WellFormedBytes => class.pi = pLen
       /\ PatternIs(<<"[", "a", "]", "]">>) => class.pi = 3
  /\ Returned /\ PatternIs(<<"[", "a", "]", "]">>) =>
       ~err /\ (result <=> SubjectIs(<<"a", "]">>))
  /\ Returned /\ PatternIs(<<"[", "a", "-", "c", "]", "]">>) =>
       ~err /\ (result <=> \E n \in {"a", "b"} : SubjectIs(<<n, "]">>))

C19_Witness ==
  /\ Returned /\ PatternIs(<<"[", "a", "]", "]">>) /\ SubjectIs(<<"a", "]">>)
  /\ result /\ pIdx = 4


\* C20: when no per-pattern match returns an error, MatchMultiple and
\* MatchFoldMultiple return no error and a slice with one entry per pattern,
\* entry i being what the match of patterns[i] against the subject returned,
\* whatever the interleaving of the goroutines.
NoMatchFailed ==
  \A g \in Goroutines : goroutines[g].pc = "exited" /\ ~goroutines[g].err

C20_ResultPerPattern ==
  mainPc = "returned" /\ NoMatchFailed =>
    /\ ~returned.err
    /\ ~returned.isNil
    /\ Len(returned.results) = Len(patterns)
    /\ \A g \in Goroutines :
         /\ goroutines[g].p = patterns[g]
         /\ returned.results[g] = goroutines[g].match

C20_Witness ==
  /\ mainPc = "returned"
  /\ NoMatchFailed
  /\ Len(patterns) >= 2
  /\ goroutines[1].match # goroutines[2].match
  /\ patterns[1] # patterns[2]


\* C21: when at least one per-pattern match returns an error, MatchMultiple
\* returns nil results and exactly one of the errors raised, the first one
\* delivered to the channel: once an error is in the channel it stays there
\* until the caller receives it, and it is the one returned; when no match
\* fails the error returned is nil.
Failed == {g \in Goroutines : goroutines[g].err}

C21_FirstErrorWins ==
  /\ [](mainPc = "returned" =>
          IF Failed # {}
            THEN /\ returned.isNil
                 /\ returned.err
                 /\ returned.from \in Failed
            ELSE ~returned.err)
  /\ [][errChan.buf # <<>> =>
          \/ errChan'.buf = errChan.buf
          \/ /\ mainPc' = "returned"
             /\ returned'.err
             /\ returned'.from = Head(errChan.buf).from]_vars

C21_Witness ==
  /\ mainPc = "returned"
  /\ Cardinality(Failed) >= 2
  /\ returned.err
  /\ returned.from = 2


\* C22: MatchMultiple always returns, and only after every spawned match has
\* finished: no goroutine stays blocked on the error channel, however many
\* patterns fail, no send meets a closed channel, and no goroutine is still
\* unstarted or running when the call has returned.
AllExited == \A g \in Goroutines : goroutines[g].pc = "exited"

C22_ReturnsAfterAll ==
  /\ <>(mainPc = "returned")
  /\ [](mainPc \in {"close", "receive", "returned"} => AllExited /\ wg = 0)
  /\ [](mainPc # "panic")

C22_Witness ==
  /\ mainPc = "returned"
  /\ AllExited
  /\ Cardinality(Failed) >= 2
  /\ errChan.closed
  /\ wg = 0


\* C23: during a match of the UTF-8 engine on valid UTF-8 input, the subject
\* index, the star's subject anchor and the question anchor are always
\* codepoint boundaries of the subject.
Boundary(i) == i = sLen \/ (0 <= i /\ i < sLen /\ ~IsCont(At(s, i)))

C23_CodepointBoundaries ==
  engine = "MatchInternalFold" =>
    /\ Boundary(sIdx)
    /\ sTmpIdx = -1 \/ Boundary(sTmpIdx)
    /\ qTmpIdx = -1 \/ Boundary(qTmpIdx)


\* C24: on a mismatch the question checkpoint is replayed first, consuming
\* one more codepoint each time and leaving the star checkpoint alone; the
\* star checkpoint is replayed only when there is no question checkpoint,
\* its run is used up or no subject is left for it, and a star replay
\* clears the question checkpoint.  The byte engine consumes a byte.
NextBoundary(i) ==
  CHOOSE j \in (i + 1)..sLen :
    Boundary(j) /\ \A k \in (i + 1)..(j - 1) : ~Boundary(k)

QuestionLeft == questionIdx # -1 /\ qMatched < qCount /\ qTmpIdx < sLen

C24_QuestionBeforeStar ==
  [][pc = "backtrack" =>
       IF QuestionLeft
         THEN /\ qMatched' = qMatched + 1
              /\ qTmpIdx' = IF engine = "MatchInternalFold"
                              THEN NextBoundary(qTmpIdx)
                              ELSE qTmpIdx + 1
              /\ sIdx' = qTmpIdx'
              /\ pIdx' = questionIdx
              /\ UNCHANGED <<starVars, questionIdx, qCount>>
         ELSE pc' = "loop" =>
                /\ sTmpIdx' > sTmpIdx
                /\ questionIdx' = -1 /\ qTmpIdx' = -1
                /\ qCount' = 0 /\ qMatched' = 0]_vars


\* C25: the jump of the star anchor to the next occurrence of the literal
\* run after the star changes nothing observable: MatchInternalFold returns
\* the same result and error as the matcher that advances the anchor one
\* position at a time.
C25_JumpIsUnobservable ==
  BothReturned("unified") =>
    result = earlier.result /\ err = earlier.err


\* C26: fold matching accepts a superset of exact matching: whenever the
\* matcher returns true with fold off it returns true with fold on, and on
\* a pattern and subject without two letters that differ only by case the
\* two settings return the same result.
CaseVariants(r1, r2) == r1 # r2 /\ equalFoldRune(r1, r2)

NoCaseVariants ==
  LET letters == {Runes(pattern)[i] : i \in DOMAIN Runes(pattern)}
                   \cup {Runes(s)[i] : i \in DOMAIN Runes(s)}
  IN  \A r1 \in letters, r2 \in letters : ~CaseVariants(r1, r2)

C26_FoldAcceptsMore ==
  BothReturned("fold") =>
    /\ earlier.result => result
    /\ NoCaseVariants => result = earlier.result /\ err = earlier.err


\* C27: the fast paths never change the answer: each dispatcher (Match and
\* MatchFold with their shortcuts for the empty pattern, the lone `*`, the
\* wildcard-free pattern, prefix*, *suffix, prefix*suffix and *word*)
\* returns the same result and error as the full backtracking matcher
\* behind it on the same arguments.
C27_FastPathsAgree ==
  BothReturned("full") =>
    result = earlier.result /\ err = earlier.err

\* C30: matching never modifies the caller's data: the pattern and the
\* subject hold after the call the values they held before it, in every
\* representation.
C30_ArgumentsUnchanged ==
  [][pc = "call" /\ pc' = "done" => pattern' = pattern /\ s' = s]_vars


\* C28: on a pattern and a subject made only of ASCII bytes, the byte-wise
\* MatchInternal(pattern, s) returns the same result and error as
\* MatchInternalFold(pattern, s, false).
Ascii(b) == \A i \in DOMAIN b : b[i] < 128

C28_EnginesAgreeOnAscii ==
  BothReturned("unicode") /\ Ascii(pattern) /\ Ascii(s) =>
    result = earlier.result /\ err = earlier.err

C28_Witness ==
  /\ BothReturned("unicode")
  /\ Ascii(pattern) /\ Ascii(s)
  /\ hasStarLiteral
  /\ sTmpIdx > 0
  /\ result /\ earlier.result


\* C29: the matcher and the class parser never read outside the pattern or
\* the subject: at every step 0 <= pIdx <= len(pattern) and
\* 0 <= sIdx <= len(subject), and every index and slice expression the next
\* step evaluates is in range, s[sTmpIdx+1:] on a star replay and
\* pattern[pIdx+1] in an escape included.
InIndex(b, i) == 0 <= i /\ i < Len(b)
InSlice(b, i, j) == 0 <= i /\ i <= j /\ j <= Len(b)

\* Reading the character at i: b[i] in the byte engine, a decode of b[i:]
\* in the UTF-8 engine.
InRead(b, i) ==
  IF engine = "MatchInternal" THEN InIndex(b, i) ELSE InSlice(b, i, Len(b))

LoopReadsInRange ==
  /\ pIdx < pLen => InIndex(pattern, pIdx)
  /\ AtStar =>
       LET after == SkipStarQuestion(pattern, pIdx)
       IN  RecordsLiteral(after) =>
             /\ InIndex(pattern, after)
             /\ InSlice(pattern, after, LiteralEnd(pattern, after))
  /\ InCase3 /\ sIdx # sLen /\ pIdx < pLen => InRead(s, sIdx)
  /\ AtToken(wildcardEscape) /\ pIdx + 1 < pLen => InIndex(pattern, pIdx + 1)
  /\ AtToken(wildcardBracket) =>
       /\ \A i \in ClassReads(engine, pattern, pIdx) : InIndex(pattern, i)
       /\ LET parsed == NewCharClass(engine, pattern, pIdx)
          IN  parsed.ok => parsed.pi > pIdx /\ parsed.pi <= pLen
  /\ InCase3 /\ sIdx # sLen /\ pIdx < pLen
       /\ ~IsWildcardByte(At(pattern, pIdx)) => InRead(pattern, pIdx)

BacktrackReadsInRange ==
  /\ CanReplayQuestion /\ engine # "MatchInternal" =>
       InSlice(s, qTmpIdx, sLen)
  /\ ~CanReplayQuestion /\ CanReplayStar /\ hasStarLiteral =>
       InSlice(s, sTmpIdx + 1, sLen)

C29_ReadsInRange ==
  /\ 0 <= pIdx /\ pIdx <= pLen
  /\ 0 <= sIdx /\ sIdx <= sLen
  /\ pc = "loop" => LoopReadsInRange
  /\ pc = "backtrack" => BacktrackReadsInRange

C29_Witness ==
  /\ pc = "backtrack"
  /\ ~CanReplayQuestion /\ CanReplayStar /\ hasStarLiteral
  /\ sTmpIdx + 1 = sLen
  /\ pIdx + 1 = pLen /\ At(pattern, pIdx) = wildcardEscape

====
